---- MODULE Spec2Model ----
(***************************************************************************)
(* A model of the tree-sitter runtime (lib/src_rust): subtrees and their   *)
(* summaries, the reference-counted subtree heap, the parse stack, and the *)
(* parser's main loop with cancellation and balancing.                     *)
(*                                                                         *)
(* The module holds several specifications over one set of variables.      *)
(* Each specification moves only the variables of its own part; the other  *)
(* parts keep their initial values.                                        *)
(***************************************************************************)
EXTENDS Integers, Sequences, FiniteSets, TLC

VARIABLES
    sm_children,   \* summarize: the SubtreeArray handed to ts_subtree_new_node
    sm_node,       \* summarize: the parent built last (NULL_SUBTREE before)
    hp,            \* heap: the SubtreeHeapData records, the pool's free_trees,
                   \*       and what went wrong (double free, use after free,
                   \*       a write to a shared record)
    hp_owned,      \* heap: how many references to each record the callers hold
                   \*       (at most MaxOwned in all)
    hp_last,       \* heap: what the last operation did (freed, cloned)
    cr_heap,       \* concurrent release: the records, and what went wrong
    cr_thread,     \* concurrent release: each thread's place in ts_tree_delete
    ps_parser,     \* parse: the TSParser (stack, finished tree, counters, flags)
    ps_call,       \* parse: where the running ts_parser_parse call stands, and
                   \*        its locals (version, position, last_position)
    ps_env,        \* parse: the text, the progress callback's answers so far,
                   \*        and what the calls made so far returned
    lx_lexer,      \* lexing: the Lexer
    lx_env,        \* lexing: where ts_parser__lex stands, its locals, the leaf
                   \*         it produced last, and the last call that set the
                   \*         included ranges
    lg_parser,     \* language: the TSParser whose language is set
    lg_env,        \* language: the calls made on it and what they returned
    rd_call,       \* range difference: the two included-range arrays handed to
                   \*         ts_range_array_get_changed_ranges and its result
    ch_call,       \* changed ranges: the two trees handed to
                   \*         ts_tree_get_changed_ranges and its result
    st_stack,      \* stack: a Stack driven through its own operations
    st_call        \* stack: the last operation on it, the stack it found and
                   \*        what it returned

sumVars == <<sm_children, sm_node>>
heapVars == <<hp, hp_owned, hp_last>>
crVars == <<cr_heap, cr_thread>>
parseVars == <<ps_parser, ps_call, ps_env>>
lexVars == <<lx_lexer, lx_env>>
langVars == <<lg_parser, lg_env>>
rangeVars == <<rd_call>>
changeVars == <<ch_call>>
stackVars == <<st_stack, st_call>>

vars == <<sm_children, sm_node, hp, hp_owned, hp_last, cr_heap, cr_thread,
          ps_parser, ps_call, ps_env, lx_lexer, lx_env, lg_parser, lg_env,
          rd_call, ch_call, st_stack, st_call>>

\* No thread and no record: the value while another specification runs.
CrIdle == cr_heap = << >> /\ cr_thread = << >>

\* No parser: the value while another specification runs.
ParseIdle == ps_parser = << >> /\ ps_call = << >> /\ ps_env = << >>

\* No lexer: the value while another specification runs.
LexIdle == lx_lexer = << >> /\ lx_env = << >>

\* No language call, no range difference, no tree comparison.
LangIdle == lg_parser = << >> /\ lg_env = << >>
RangeIdle == rd_call = << >>
ChangeIdle == ch_call = << >>
StackIdle == st_stack = << >> /\ st_call = << >>

(***************************************************************************)
(* Program constants                                                       *)
(***************************************************************************)
TS_TREE_STATE_NONE == 65535
ts_builtin_sym_error == 65535
ts_builtin_sym_end == 0
ts_builtin_sym_error_repeat == ts_builtin_sym_error - 1
ERROR_STATE == 0
TREE_SITTER_LANGUAGE_VERSION == 15
TREE_SITTER_MIN_COMPATIBLE_LANGUAGE_VERSION == 13
ERROR_COST_PER_RECOVERY == 500
ERROR_COST_PER_MISSING_TREE == 110
ERROR_COST_PER_SKIPPED_TREE == 100
ERROR_COST_PER_SKIPPED_LINE == 30
ERROR_COST_PER_SKIPPED_CHAR == 1

(***************************************************************************)
(* The language the model runs.  A TSLanguage is data handed to the        *)
(* runtime; this one is a list of pairs with a hidden extra token:         *)
(*     source_file -> pair | _rep                                          *)
(*     _rep        -> pair pair | _rep pair      (auxiliary repeat symbol) *)
(*     pair        -> 'x' 'y'                                              *)
(*     extras:  _comment (a hidden token)                                  *)
(* and, beside the pairs, an ambiguous head of two runs:                   *)
(*     source_file -> u v 'o' 'q'                                          *)
(*     u           -> 'a' | 'a' 'a' | ... (one to RunLength 'a')           *)
(*     v           -> 'a' | 'a' 'a' | ... (one to RunLength 'a')           *)
(* where the place at which u ends is a declared conflict; and a head of   *)
(* two conflicts between reductions of one token:                          *)
(*     source_file -> h_i b_j 'q'     (each i in 1..Heads, j in 1..Bodies) *)
(*     h_i         -> 'k'                                                  *)
(*     b_j         -> 'a'                                                  *)
(* It has no aliases and no external scanner.                              *)
(***************************************************************************)
sym_x == ts_builtin_sym_end + 1
sym_y == sym_x + 1
sym_comment == sym_y + 1
sym_a == sym_comment + 1
sym_o == sym_a + 1
sym_q == sym_o + 1
sym_k == sym_q + 1
sym_source_file == sym_k + 1
sym_pair == sym_source_file + 1
aux_sym_rep == sym_pair + 1
sym_u == aux_sym_rep + 1
sym_v == sym_u + 1

Heads == 4
Bodies == 3
sym_h(i) == sym_v + i
sym_b(j) == sym_v + Heads + j

GrammarSymbols == {ts_builtin_sym_end, sym_x, sym_y, sym_comment,
                   sym_a, sym_o, sym_q, sym_k,
                   sym_source_file, sym_pair, aux_sym_rep, sym_u, sym_v}
                  \cup {sym_h(i) : i \in 1..Heads} \cup {sym_b(j) : j \in 1..Bodies}

\* TSSymbolMetadata of each symbol: [visible, named].
ts_language_symbol_metadata(symbol) ==
    IF symbol = ts_builtin_sym_error THEN [visible |-> TRUE, named |-> TRUE]
    ELSE IF symbol = ts_builtin_sym_error_repeat THEN [visible |-> FALSE, named |-> FALSE]
    ELSE IF symbol \in {sym_x, sym_y, sym_a, sym_o, sym_q, sym_k}
    THEN [visible |-> TRUE, named |-> FALSE]
    ELSE IF symbol \in {sym_source_file, sym_pair, sym_u, sym_v} \/ symbol > sym_v
    THEN [visible |-> TRUE, named |-> TRUE]
    ELSE [visible |-> FALSE, named |-> FALSE]

(***************************************************************************)
(* Lengths.  The model's texts hold no line break, so a Length is its      *)
(* byte count (the extent's row is always 0).                              *)
(***************************************************************************)
length_zero == 0
length_add(len1, len2) == len1 + len2
length_sub(len1, len2) == IF len1 >= len2 THEN len1 - len2 ELSE 0
length_saturating_sub(len1, len2) == IF len1 > len2 THEN length_sub(len1, len2) ELSE length_zero
length_min(len1, len2) == IF len1 < len2 THEN len1 ELSE len2

(***************************************************************************)
(* Subtrees as values.  A subtree is a record of the fields of             *)
(* SubtreeHeapData; its children are the records stored before it.         *)
(***************************************************************************)
NULL_SUBTREE == [null |-> TRUE]
IsNull(tree) == "null" \in DOMAIN tree

ts_subtree_symbol(self_) == self_.symbol
ts_subtree_visible(self_) == self_.visible
ts_subtree_named(self_) == self_.named
ts_subtree_extra(self_) == self_.extra
ts_subtree_missing(self_) == self_.is_missing
ts_subtree_has_changes(self_) == self_.has_changes
ts_subtree_parse_state(self_) == self_.parse_state
ts_subtree_lookahead_bytes(self_) == self_.lookahead_bytes
ts_subtree_child_count(self_) == Len(self_.children)
ts_subtree_padding(self_) == self_.padding
ts_subtree_size(self_) == self_.size
ts_subtree_total_size(self_) == length_add(ts_subtree_padding(self_), ts_subtree_size(self_))
ts_subtree_total_bytes(self_) == ts_subtree_total_size(self_)
ts_subtree_repeat_depth(self_) == self_.repeat_depth
ts_subtree_visible_descendant_count(self_) ==
    IF Len(self_.children) = 0 THEN 0 ELSE self_.visible_descendant_count
ts_subtree_visible_child_count(self_) ==
    IF ts_subtree_child_count(self_) > 0 THEN self_.visible_child_count ELSE 0
ts_subtree_error_cost(self_) ==
    IF ts_subtree_missing(self_)
    THEN ERROR_COST_PER_MISSING_TREE + ERROR_COST_PER_RECOVERY
    ELSE self_.error_cost
ts_subtree_dynamic_precedence(self_) ==
    IF Len(self_.children) = 0 THEN 0 ELSE self_.dynamic_precedence
ts_subtree_fragile_left(self_) == self_.fragile_left
ts_subtree_fragile_right(self_) == self_.fragile_right
ts_subtree_is_fragile(self_) == self_.fragile_left \/ self_.fragile_right
ts_subtree_is_error(self_) == ts_subtree_symbol(self_) = ts_builtin_sym_error
ts_subtree_is_eof(self_) == ts_subtree_symbol(self_) = ts_builtin_sym_end
ts_subtree_has_external_tokens(self_) == self_.has_external_tokens

\* The last leaf of the tree that is an external token.
RECURSIVE ts_subtree_last_external_token(_)
RECURSIVE last_external_child(_, _)
last_external_child(tree, i) ==
    IF i = 0 THEN tree
    ELSE IF ts_subtree_has_external_tokens(tree.children[i])
    THEN ts_subtree_last_external_token(tree.children[i])
    ELSE last_external_child(tree, i - 1)

ts_subtree_last_external_token(tree) ==
    IF ~ts_subtree_has_external_tokens(tree) THEN NULL_SUBTREE
    ELSE IF Len(tree.children) > 0 THEN last_external_child(tree, Len(tree.children))
    ELSE tree

\* An ExternalScannerState is the sequence of its bytes; the empty one is
\* the state of a subtree that is not an external token.
ts_subtree_external_scanner_state(self_) ==
    IF ~IsNull(self_) /\ self_.has_external_tokens /\ Len(self_.children) = 0
    THEN self_.external_scanner_state
    ELSE << >>

ts_subtree_external_scanner_state_eq(self_, other) ==
    ts_subtree_external_scanner_state(self_) = ts_subtree_external_scanner_state(other)
ts_subtree_leaf_symbol(self_) ==
    IF Len(self_.children) = 0 THEN self_.symbol ELSE self_.first_leaf.symbol
ts_subtree_leaf_parse_state(self_) ==
    IF Len(self_.children) = 0 THEN self_.parse_state ELSE self_.first_leaf.parse_state

ts_subtree_new_leaf(symbol, padding, size, lookahead_bytes, parse_state, is_keyword) ==
    LET metadata == ts_language_symbol_metadata(symbol) IN
    [ ref_count |-> 1,
      padding |-> padding,
      size |-> size,
      lookahead_bytes |-> lookahead_bytes,
      error_cost |-> 0,
      children |-> << >>,
      symbol |-> symbol,
      parse_state |-> parse_state,
      visible |-> metadata.visible,
      named |-> metadata.named,
      extra |-> (symbol = ts_builtin_sym_end),
      fragile_left |-> FALSE,
      fragile_right |-> FALSE,
      has_changes |-> FALSE,
      is_missing |-> FALSE,
      is_keyword |-> is_keyword,
      visible_child_count |-> 0,
      named_child_count |-> 0,
      visible_descendant_count |-> 0,
      dynamic_precedence |-> 0,
      repeat_depth |-> 0,
      production_id |-> 0,
      first_leaf |-> [symbol |-> 0, parse_state |-> 0],
      has_external_tokens |-> FALSE,
      external_scanner_state |-> << >> ]

ts_subtree_new_error(padding, size, bytes_scanned, parse_state) ==
    [ ts_subtree_new_leaf(ts_builtin_sym_error, padding, size, bytes_scanned,
                          parse_state, FALSE)
      EXCEPT !.fragile_left = TRUE, !.fragile_right = TRUE ]

ts_subtree_new_missing_leaf(symbol, padding, lookahead_bytes) ==
    [ ts_subtree_new_leaf(symbol, padding, length_zero, lookahead_bytes, 0, FALSE)
      EXCEPT !.is_missing = TRUE ]

\* A summary that adds every child's total size, the first child's too.
summarize_size_all_totals(self_, child, i) ==
    IF i = 1
    THEN [self_ EXCEPT !.padding = ts_subtree_padding(child),
                       !.size = ts_subtree_total_size(child)]
    ELSE [self_ EXCEPT !.size = length_add(self_.size, ts_subtree_total_size(child))]

\* The padding and size a parent takes from child number i (the first is 1).
summarize_size(self_, child, i) ==
    IF i = 1
    THEN [self_ EXCEPT !.padding = ts_subtree_padding(child),
                       !.size = ts_subtree_size(child)]
    ELSE [self_ EXCEPT !.size = length_add(self_.size, ts_subtree_total_size(child))]

\* The error cost a parent takes from one child.
summarize_error_cost(self_, child) ==
    LET grandchild_count == ts_subtree_child_count(child)
        c1 == IF ts_subtree_symbol(child) # ts_builtin_sym_error_repeat
              THEN self_.error_cost + ts_subtree_error_cost(child)
              ELSE self_.error_cost
        c2 == IF /\ self_.symbol \in {ts_builtin_sym_error, ts_builtin_sym_error_repeat}
                 /\ ~ts_subtree_extra(child)
                 /\ ~(ts_subtree_is_error(child) /\ grandchild_count = 0)
              THEN IF ts_subtree_visible(child)
                   THEN c1 + ERROR_COST_PER_SKIPPED_TREE
                   ELSE IF grandchild_count > 0
                        THEN c1 + ERROR_COST_PER_SKIPPED_TREE * child.visible_child_count
                        ELSE c1
              ELSE c1
    IN [self_ EXCEPT !.error_cost = c2]

\* The visible and named counts a parent takes from one child (the language
\* has no alias sequence, so the alias branch is never taken).
summarize_counts(self_, child) ==
    LET grandchild_count == ts_subtree_child_count(child)
        s1 == [self_ EXCEPT
                 !.dynamic_precedence = @ + ts_subtree_dynamic_precedence(child),
                 !.visible_descendant_count = @ + ts_subtree_visible_descendant_count(child)]
    IN IF ts_subtree_visible(child)
       THEN [s1 EXCEPT !.visible_descendant_count = @ + 1,
                       !.visible_child_count = @ + 1,
                       !.named_child_count = IF ts_subtree_named(child) THEN @ + 1 ELSE @]
       ELSE IF grandchild_count > 0
            THEN [s1 EXCEPT !.visible_child_count = @ + child.visible_child_count,
                            !.named_child_count = @ + child.named_child_count]
            ELSE s1

\* One iteration of the loop over the children; acc carries the parent and
\* the running lookahead_end_byte.
summarize_child(acc, child, i) ==
    LET s1 == summarize_size(acc.self, child, i)
        child_lookahead_end_byte ==
            s1.padding + s1.size + ts_subtree_lookahead_bytes(child)
        s2 == summarize_error_cost(s1, child)
        counted == summarize_counts(s2, child)
        s3 == IF ts_subtree_has_external_tokens(child)
              THEN [counted EXCEPT !.has_external_tokens = TRUE]
              ELSE counted
        s4 == IF ts_subtree_is_error(child)
              THEN [s3 EXCEPT !.fragile_left = TRUE, !.fragile_right = TRUE,
                              !.parse_state = TS_TREE_STATE_NONE]
              ELSE s3
    IN [ self |-> s4,
         lookahead_end_byte |->
             IF child_lookahead_end_byte > acc.lookahead_end_byte
             THEN child_lookahead_end_byte ELSE acc.lookahead_end_byte ]

\* The iterations i..j of the loop, in their order.  A range of more than one
\* child is taken in two halves, which keeps the evaluation shallow when a
\* node has a hundred children; the test of acc.self (never null) makes the
\* first half computed before the second is entered.
RECURSIVE summarize_range(_, _, _, _)
summarize_range(acc, children, i, j) ==
    IF i > j \/ IsNull(acc.self) THEN acc
    ELSE IF i = j THEN summarize_child(acc, children[i], i)
    ELSE summarize_range(summarize_range(acc, children, i, (i + j) \div 2),
                         children, (i + j) \div 2 + 1, j)

summarize_loop(acc, children, i) == summarize_range(acc, children, i, Len(children))

\* The cast `as u16` keeps the low 16 bits.
U16_MAX == 65535
as_u16(n) == n % (U16_MAX + 1)

\* The repeat depth of a parent: set for an invisible, unnamed node whose
\* first child carries the same symbol; the field is a u16.
summarize_repeat_depth(self_) ==
    LET first_child == self_.children[1]
        last_child == self_.children[Len(self_.children)]
    IN IF /\ Len(self_.children) >= 2
          /\ ~self_.visible
          /\ ~self_.named
          /\ ts_subtree_symbol(first_child) = self_.symbol
       THEN IF ts_subtree_repeat_depth(first_child) > ts_subtree_repeat_depth(last_child)
            THEN as_u16(ts_subtree_repeat_depth(first_child) + 1)
            ELSE as_u16(ts_subtree_repeat_depth(last_child) + 1)
       ELSE self_.repeat_depth

\* The end of ts_subtree_summarize_children, after its loop over the
\* children has left `done`.
summarize_finish(self_, done) ==
    LET s1 == [done.self EXCEPT
                 !.lookahead_bytes = done.lookahead_end_byte - done.self.size - done.self.padding]
        s2 == IF s1.symbol \in {ts_builtin_sym_error, ts_builtin_sym_error_repeat}
              THEN [s1 EXCEPT !.error_cost = @ + ERROR_COST_PER_RECOVERY
                                               + ERROR_COST_PER_SKIPPED_CHAR * s1.size]
              ELSE s1
    IN IF Len(self_.children) > 0
       THEN LET first_child == self_.children[1]
                last_child == self_.children[Len(self_.children)]
                s3 == [s2 EXCEPT
                         !.first_leaf = [symbol |-> ts_subtree_leaf_symbol(first_child),
                                         parse_state |-> ts_subtree_leaf_parse_state(first_child)],
                         !.fragile_left = @ \/ ts_subtree_fragile_left(first_child),
                         !.fragile_right = @ \/ ts_subtree_fragile_right(last_child)]
            IN [s3 EXCEPT !.repeat_depth = summarize_repeat_depth(s3)]
       ELSE s2

ts_subtree_summarize_children(self_) ==
    summarize_finish(self_,
        summarize_loop([self |-> [self_ EXCEPT !.named_child_count = 0,
                                               !.visible_child_count = 0,
                                               !.error_cost = 0,
                                               !.repeat_depth = 0,
                                               !.visible_descendant_count = 0,
                                               !.has_external_tokens = FALSE,
                                               !.dynamic_precedence = 0],
                        lookahead_end_byte |-> 0],
                       self_.children, 1))

ts_subtree_new_node(symbol, children, production_id) ==
    LET metadata == ts_language_symbol_metadata(symbol)
        fragile == symbol \in {ts_builtin_sym_error, ts_builtin_sym_error_repeat}
    IN ts_subtree_summarize_children(
         [ ref_count |-> 1,
           padding |-> length_zero,
           size |-> length_zero,
           lookahead_bytes |-> 0,
           error_cost |-> 0,
           children |-> children,
           symbol |-> symbol,
           parse_state |-> 0,
           visible |-> metadata.visible,
           named |-> metadata.named,
           extra |-> FALSE,
           fragile_left |-> fragile,
           fragile_right |-> fragile,
           has_changes |-> FALSE,
           is_missing |-> FALSE,
           is_keyword |-> FALSE,
           visible_child_count |-> 0,
           named_child_count |-> 0,
           visible_descendant_count |-> 0,
           dynamic_precedence |-> 0,
           repeat_depth |-> 0,
           production_id |-> production_id,
           first_leaf |-> [symbol |-> 0, parse_state |-> 0],
           has_external_tokens |-> FALSE,
           external_scanner_state |-> << >> ])

ts_subtree_new_error_node(children, extra) ==
    [ts_subtree_new_node(ts_builtin_sym_error, children, 0) EXCEPT !.extra = extra]


(***************************************************************************)
(* The subtree heap.  A record of the heap is a SubtreeHeapData with its   *)
(* reference count and its array of children; a child is the number of a   *)
(* record, or 0 for an inline subtree (which is no pointer and is never    *)
(* counted).  H is the heap with the parser pool's free_trees and three    *)
(* flags that record a double free, a use after free and a write to a      *)
(* record whose ref_count is above 1.                                      *)
(***************************************************************************)
MaxCells == 3
MaxOwned == 3
TS_MAX_TREE_POOL_SIZE == 32
HeapCells == 1..MaxCells

FreeCell == [state |-> "free", ref_count |-> 0, children |-> << >>,
             symbol |-> 0, extra |-> FALSE, has_changes |-> FALSE]

\* ts_malloc: the block handed out is the lowest one that is free.
ts_malloc(H) == CHOOSE id \in HeapCells :
                   /\ H.cells[id].state = "free"
                   /\ \A other \in HeapCells : H.cells[other].state = "free" => id <= other
CanMalloc(H) == \E id \in HeapCells : H.cells[id].state = "free"

ts_free(H, id) ==
    [H EXCEPT !.cells[id] = FreeCell,
              !.double_free = @ \/ H.cells[id].state # "live"]

ts_subtree_pool_allocate(H) ==
    IF Len(H.pool) > 0
    THEN [H |-> [H EXCEPT !.pool = SubSeq(H.pool, 1, Len(H.pool) - 1)],
          ptr |-> H.pool[Len(H.pool)]]
    ELSE [H |-> H, ptr |-> ts_malloc(H)]
CanPoolAllocate(H) == Len(H.pool) > 0 \/ CanMalloc(H)

\* capacity is the capacity of the pool's free_trees: 32 for the parser's
\* pool, 0 for the pool ts_tree_delete and ts_tree_edit make.
ts_subtree_pool_free(H, tree, capacity) ==
    IF capacity > 0 /\ Len(H.pool) + 1 <= TS_MAX_TREE_POOL_SIZE
    THEN [H EXCEPT !.pool = Append(H.pool, tree),
                   !.cells[tree] = [FreeCell EXCEPT !.state = "pooled"],
                   !.double_free = @ \/ H.cells[tree].state # "live"]
    ELSE ts_free(H, tree)

\* A write to a field of a record, noted when the record is shared.
heap_write(H, id) ==
    [H EXCEPT !.shared_write = @ \/ H.cells[id].ref_count > 1,
              !.use_after_free = @ \/ H.cells[id].state # "live"]

\* fetch_add(1) on the reference count (u32; the counts of the model stay
\* far below 2^32).
fetch_add(H, id) ==
    [H EXCEPT !.cells[id].ref_count = @ + 1,
              !.use_after_free = @ \/ H.cells[id].state # "live"]

\* fetch_sub(1) on the reference count; a count of 0 is decremented only in
\* a block that is not live.
fetch_sub(H, id) ==
    [H EXCEPT !.cells[id].ref_count = IF @ = 0 THEN 0 ELSE @ - 1,
              !.use_after_free = @ \/ H.cells[id].state # "live"]

\* A release that takes the count reaching 1 for the last reference.
fetch_sub_was_two(H, id) == H.cells[id].ref_count = 2

\* What fetch_sub returned was 1: this release dropped the last reference.
fetch_sub_was_one(H, id) == H.cells[id].ref_count = 1

ts_subtree_retain(H, self_) ==
    IF self_ = 0 THEN H ELSE fetch_add(H, self_)

\* The loop of ts_subtree_release over the children of a popped record.
RECURSIVE release_children(_, _, _, _)
release_children(H, tree_stack, children, i) ==
    IF i > Len(children) THEN [H |-> H, tree_stack |-> tree_stack]
    ELSE LET child == children[i] IN
         IF child = 0 THEN release_children(H, tree_stack, children, i + 1)
         ELSE release_children(
                  fetch_sub(H, child),
                  IF fetch_sub_was_one(H, child) THEN Append(tree_stack, child)
                  ELSE tree_stack,
                  children, i + 1)

\* The loop of ts_subtree_release that empties the pool's tree_stack.
RECURSIVE release_loop(_, _, _)
release_loop(H, tree_stack, capacity) ==
    IF Len(tree_stack) = 0 THEN H
    ELSE LET tree == tree_stack[Len(tree_stack)]
             rest == SubSeq(tree_stack, 1, Len(tree_stack) - 1)
         IN IF Len(H.cells[tree].children) > 0
            THEN LET r == release_children(H, rest, H.cells[tree].children, 1)
                 IN release_loop(ts_free(r.H, tree), r.tree_stack, capacity)
            ELSE release_loop(ts_subtree_pool_free(H, tree, capacity), rest, capacity)

ts_subtree_release(H, self_, capacity) ==
    IF self_ = 0 THEN H
    ELSE release_loop(fetch_sub(H, self_),
                      IF fetch_sub_was_one(H, self_) THEN << self_ >> ELSE << >>,
                      capacity)

RECURSIVE retain_all(_, _, _)
retain_all(H, children, i) ==
    IF i > Len(children) THEN H
    ELSE retain_all(ts_subtree_retain(H, children[i]), children, i + 1)

\* ts_subtree_clone: a copy with ref_count 1 whose children are retained.
ts_subtree_clone(H, self_) ==
    LET result == ts_malloc(H)
        H1 == [H EXCEPT !.cells[result] = [H.cells[self_] EXCEPT !.ref_count = 1]]
    IN [H |-> retain_all(H1, H.cells[self_].children, 1), ptr |-> result]

\* A make_mut that hands back the record itself, shared or not.
make_mut_in_place(H, self_, capacity) == [H |-> H, ptr |-> self_]

ts_subtree_make_mut(H, self_, capacity) ==
    IF self_ = 0 THEN [H |-> H, ptr |-> self_]
    ELSE IF H.cells[self_].ref_count = 1 THEN [H |-> H, ptr |-> self_]
    ELSE LET result == ts_subtree_clone(H, self_)
         IN [H |-> ts_subtree_release(result.H, self_, capacity), ptr |-> result.ptr]

\* The first loop of ts_subtree_compress: up to count rotations down the
\* left spine; the records rotated are pushed on the stack.
RECURSIVE compress_rotate(_, _, _, _, _)
compress_rotate(H, tree, symbol, count, stack) ==
    LET done == [H |-> H, stack |-> stack] IN
    IF count = 0 THEN done
    ELSE IF H.cells[tree].ref_count > 1 \/ Len(H.cells[tree].children) < 2 THEN done
    ELSE LET child == H.cells[tree].children[1] IN
         IF \/ child = 0
            \/ Len(H.cells[child].children) < 2
            \/ H.cells[child].ref_count > 1
            \/ H.cells[child].symbol # symbol
         THEN done
         ELSE LET grandchild == H.cells[child].children[1] IN
              IF \/ grandchild = 0
                 \/ Len(H.cells[grandchild].children) < 2
                 \/ H.cells[grandchild].ref_count > 1
                 \/ H.cells[grandchild].symbol # symbol
              THEN done
              ELSE LET gc_last == Len(H.cells[grandchild].children)
                       H1 == [heap_write(H, tree) EXCEPT
                                !.cells[tree].children[1] = grandchild]
                       H2 == [heap_write(H1, child) EXCEPT
                                !.cells[child].children[1] =
                                    H.cells[grandchild].children[gc_last]]
                       H3 == [heap_write(H2, grandchild) EXCEPT
                                !.cells[grandchild].children[gc_last] = child]
                   IN compress_rotate(H3, grandchild, symbol, count - 1,
                                      Append(stack, tree))

\* The second loop of ts_subtree_compress: the rotated records are
\* summarised again, innermost first (each summary writes the record).
RECURSIVE compress_summarize(_, _)
compress_summarize(H, stack) ==
    IF Len(stack) = 0 THEN H
    ELSE LET tree == stack[Len(stack)]
             child == H.cells[tree].children[1]
             grandchild == H.cells[child].children[Len(H.cells[child].children)]
         IN compress_summarize(
                heap_write(heap_write(heap_write(H, grandchild), child), tree),
                SubSeq(stack, 1, Len(stack) - 1))

ts_subtree_compress(H, self_, count) ==
    LET r == compress_rotate(H, self_, H.cells[self_].symbol, count, << >>)
    IN compress_summarize(r.H, r.stack)

\* How many subtrees ts_subtree_edit visits below and at self_, when the
\* edit reaches the children that are in touched.
RECURSIVE EditVisits(_, _, _)
EditVisits(H, self_, touched) ==
    IF self_ = 0 THEN 1
    ELSE LET kids == H.cells[self_].children
             RECURSIVE Sum(_)
             Sum(i) == IF i > Len(kids) THEN 0
                       ELSE (IF kids[i] \in touched
                             THEN EditVisits(H, kids[i], touched) ELSE 0) + Sum(i + 1)
         IN 1 + Sum(1)

\* ts_subtree_edit: every subtree the edit reaches is made mutable, written
\* (padding, size, has_changes) and stored back in its parent's array; an
\* inline subtree that no longer fits is promoted to a heap record.  The
\* edit reaches the children that are in touched (0: the inline ones).
RECURSIVE ts_subtree_edit(_, _, _)
RECURSIVE edit_children(_, _, _, _)
ts_subtree_edit(H, self_, touched) ==
    IF self_ = 0
    THEN \* the pool of ts_tree_edit has no free_trees: the record is malloc'ed
         LET ptr == ts_malloc(H)
         IN [H |-> [H EXCEPT !.cells[ptr] =
                        [FreeCell EXCEPT !.state = "live", !.ref_count = 1,
                                         !.has_changes = TRUE]],
             ptr |-> ptr]
    ELSE LET result == ts_subtree_make_mut(H, self_, 0)
             H1 == [heap_write(result.H, result.ptr) EXCEPT
                      !.cells[result.ptr].has_changes = TRUE]
         IN [H |-> edit_children(H1, result.ptr, touched, 1), ptr |-> result.ptr]

edit_children(H, parent, touched, i) ==
    IF i > Len(H.cells[parent].children) THEN H
    ELSE LET child == H.cells[parent].children[i] IN
         IF child \notin touched THEN edit_children(H, parent, touched, i + 1)
         ELSE LET e == ts_subtree_edit(H, child, touched)
                  H1 == [heap_write(e.H, parent) EXCEPT
                           !.cells[parent].children[i] = e.ptr]
              IN edit_children(H1, parent, touched, i + 1)

(***************************************************************************)
(* Specification SpecHeap: callers that build subtrees, share them, write  *)
(* them and let them go.  hp_owned counts the references the callers hold  *)
(* (a TSTree's root, a stack link, the parser's lookahead).                *)
(***************************************************************************)
RECURSIVE OwnedSum(_, _)
OwnedSum(owned, id) == IF id > MaxCells THEN 0 ELSE owned[id] + OwnedSum(owned, id + 1)

FreeCount(H) == Cardinality({id \in HeapCells : H.cells[id].state = "free"})

InitHeapVars ==
    /\ hp = [cells |-> [id \in HeapCells |-> FreeCell],
             pool |-> << >>,
             double_free |-> FALSE,
             use_after_free |-> FALSE,
             shared_write |-> FALSE]
    /\ hp_owned = [id \in HeapCells |-> 0]
    /\ hp_last = [freed |-> {}, cloned |-> FALSE]

\* The records an operation freed or gave to the pool.
Freed(H, H2) == {id \in HeapCells : H.cells[id].state = "live" /\ H2.cells[id].state # "live"}

\* ts_subtree_new_leaf of a token too large to be inline.
HpNewLeaf ==
    /\ CanPoolAllocate(hp)
    /\ OwnedSum(hp_owned, 1) < MaxOwned
    /\ LET symbol == sym_x
             a == ts_subtree_pool_allocate(hp) IN
         /\ hp' = [a.H EXCEPT !.cells[a.ptr] =
                      [FreeCell EXCEPT !.state = "live", !.ref_count = 1,
                                       !.symbol = symbol]]
         /\ hp_owned' = [hp_owned EXCEPT ![a.ptr] = 1]
    /\ hp_last' = [freed |-> {}, cloned |-> FALSE]
    /\ UNCHANGED <<sumVars, crVars, parseVars, lexVars, langVars, rangeVars, changeVars, stackVars>>

\* ts_subtree_new_node: the caller's references to the children move into
\* the parent's array (0: an inline child).
HpNewNode ==
    /\ CanMalloc(hp)
    /\ \E c1 \in HeapCells \cup {0}, c2 \in HeapCells \cup {0} :
         LET children == << c1, c2 >>
             needed == [id \in HeapCells |->
                          (IF c1 = id THEN 1 ELSE 0) + (IF c2 = id THEN 1 ELSE 0)]
             ptr == ts_malloc(hp)
         IN /\ \A id \in HeapCells : hp_owned[id] >= needed[id]
            /\ OwnedSum(hp_owned, 1) - OwnedSum(needed, 1) < MaxOwned
            /\ hp' = [hp EXCEPT !.cells[ptr] =
                         [FreeCell EXCEPT !.state = "live", !.ref_count = 1,
                                          !.children = children,
                                          !.symbol = aux_sym_rep]]
            /\ hp_owned' = [id \in HeapCells |->
                              IF id = ptr THEN 1 ELSE hp_owned[id] - needed[id]]
    /\ hp_last' = [freed |-> {}, cloned |-> FALSE]
    /\ UNCHANGED <<sumVars, crVars, parseVars, lexVars, langVars, rangeVars, changeVars, stackVars>>

\* ts_subtree_retain by a caller that holds a reference (ts_tree_copy, a
\* stack link added, a version copied).
HpRetain ==
    /\ \E id \in HeapCells :
         /\ hp_owned[id] >= 1
         /\ OwnedSum(hp_owned, 1) < MaxOwned
         /\ hp' = ts_subtree_retain(hp, id)
         /\ hp_owned' = [hp_owned EXCEPT ![id] = @ + 1]
    /\ hp_last' = [freed |-> {}, cloned |-> FALSE]
    /\ UNCHANGED <<sumVars, crVars, parseVars, lexVars, langVars, rangeVars, changeVars, stackVars>>

\* ts_subtree_release of a reference a caller holds, with the parser's pool
\* (capacity 32) or with the pool of ts_tree_delete (capacity 0).
HpRelease ==
    /\ \E id \in HeapCells, capacity \in {0, TS_MAX_TREE_POOL_SIZE} :
         /\ hp_owned[id] >= 1
         /\ hp' = ts_subtree_release(hp, id, capacity)
         /\ hp_owned' = [hp_owned EXCEPT ![id] = @ - 1]
         /\ hp_last' = [freed |-> Freed(hp, hp'), cloned |-> FALSE]
    /\ UNCHANGED <<sumVars, crVars, parseVars, lexVars, langVars, rangeVars, changeVars, stackVars>>

\* ts_parser__shift and ts_parser__recover: the lookahead is made mutable
\* and its extra flag is set.
HpSetExtra ==
    /\ \E id \in HeapCells :
         /\ hp_owned[id] >= 1
         /\ hp.cells[id].ref_count = 1 \/ CanMalloc(hp)
         /\ LET result == ts_subtree_make_mut(hp, id, TS_MAX_TREE_POOL_SIZE) IN
            /\ hp' = [heap_write(result.H, result.ptr) EXCEPT
                        !.cells[result.ptr].extra = ~@]
            /\ hp_owned' = [[hp_owned EXCEPT ![id] = @ - 1] EXCEPT ![result.ptr] = @ + 1]
            /\ hp_last' = [freed |-> Freed(hp, hp'),
                           cloned |-> result.ptr # id]
    /\ UNCHANGED <<sumVars, crVars, parseVars, lexVars, langVars, rangeVars, changeVars, stackVars>>

\* ts_parser__advance: a keyword lookahead is made mutable and its symbol
\* replaced by the word token.
HpSetSymbol ==
    /\ \E id \in HeapCells :
         /\ hp_owned[id] >= 1
         /\ hp.cells[id].ref_count = 1 \/ CanMalloc(hp)
         /\ Len(hp.cells[id].children) = 0
         /\ hp.cells[id].symbol = sym_x
         /\ LET result == ts_subtree_make_mut(hp, id, TS_MAX_TREE_POOL_SIZE) IN
            /\ hp' = [heap_write(result.H, result.ptr) EXCEPT
                        !.cells[result.ptr].symbol = sym_y]
            /\ hp_owned' = [[hp_owned EXCEPT ![id] = @ - 1] EXCEPT ![result.ptr] = @ + 1]
            /\ hp_last' = [freed |-> Freed(hp, hp'),
                           cloned |-> result.ptr # id]
    /\ UNCHANGED <<sumVars, crVars, parseVars, lexVars, langVars, rangeVars, changeVars, stackVars>>

\* ts_tree_edit: the root a tree holds is edited.
HpEdit ==
    /\ \E id \in HeapCells, touched \in SUBSET (HeapCells \cup {0}) :
         /\ hp_owned[id] >= 1
         /\ FreeCount(hp) >= EditVisits(hp, id, touched)
         /\ LET result == ts_subtree_edit(hp, id, touched) IN
            /\ hp' = result.H
            /\ hp_owned' = [[hp_owned EXCEPT ![id] = @ - 1] EXCEPT ![result.ptr] = @ + 1]
            /\ hp_last' = [freed |-> Freed(hp, hp'),
                           cloned |-> result.ptr # id]
    /\ UNCHANGED <<sumVars, crVars, parseVars, lexVars, langVars, rangeVars, changeVars, stackVars>>

\* ts_parser__balance_subtree: a subtree with children whose ref_count is 1
\* is taken from the work stack and compressed.
HpCompress ==
    /\ \E id \in HeapCells, count \in 1..2 :
         /\ hp.cells[id].state = "live"
         /\ Len(hp.cells[id].children) > 0
         /\ hp.cells[id].ref_count = 1
         /\ hp' = ts_subtree_compress(hp, id, count)
         /\ hp_last' = [freed |-> {},
                        cloned |-> FALSE]
    /\ UNCHANGED <<hp_owned, sumVars, crVars, parseVars, lexVars, langVars, rangeVars, changeVars, stackVars>>

NextHeap ==
    \/ HpNewLeaf \/ HpNewNode \/ HpRetain \/ HpRelease
    \/ HpSetExtra \/ HpSetSymbol \/ HpEdit \/ HpCompress

InitHeap ==
    /\ InitHeapVars
    /\ sm_children = << >>
    /\ sm_node = NULL_SUBTREE
    /\ CrIdle
    /\ ParseIdle
    /\ LexIdle
    /\ LangIdle
    /\ RangeIdle
    /\ ChangeIdle
    /\ StackIdle

SpecHeap == InitHeap /\ [][NextHeap]_vars

\* The references to a record: those the callers hold and those in the
\* children arrays of live records.
RECURSIVE CountIn(_, _, _)
CountIn(children, id, i) ==
    IF i > Len(children) THEN 0
    ELSE (IF children[i] = id THEN 1 ELSE 0) + CountIn(children, id, i + 1)

RECURSIVE ParentRefs(_, _)
ParentRefs(id, p) ==
    IF p > MaxCells THEN 0
    ELSE (IF hp.cells[p].state = "live" THEN CountIn(hp.cells[p].children, id, 1) ELSE 0)
         + ParentRefs(id, p + 1)

References(id) == hp_owned[id] + ParentRefs(id, 1)

(***************************************************************************)
(* Specification SpecConcurrentRelease: threads that each hold TSTrees     *)
(* made by ts_tree_copy and delete them.  ts_tree_delete releases the root *)
(* with a pool of its own (no free_trees), so every thread has its own     *)
(* tree_stack and a record let go is handed to ts_free.  Every atomic      *)
(* operation on a ref_count is one step; the steps of the threads          *)
(* interleave.                                                             *)
(***************************************************************************)
NThreads == 3
MaxHeld == 2
CrThreads == 1..NThreads

\* The trees the threads hold: two roots (records 1 and 2, as after an edit
\* and a reparse) that share the subtree 3, which shares the leaf 4 with
\* root 1; 0 is an inline child.
CrChildren == << << 3, 4 >>, << 3, 0 >>, << 4, 0 >>, << >> >>
CrCells == 1..Len(CrChildren)
CrRoots == {id \in CrCells : Len(CrChildren[id]) > 0}

\* A read or write of a record by a thread: noted when the block is not
\* live any more.
cr_access(H, id) ==
    [H EXCEPT !.use_after_free = @ \/ ~H.live[id]]

\* A decrement that hands back the count after the decrement.
cr_load_after_sub(H, id) == H.ref_count[id] - 1

\* What fetch_sub(1, SeqCst) hands back: the count before the decrement.
cr_fetch_sub_returned(H, id) == H.ref_count[id]

\* fetch_sub on a record's count by thread t; the thread that is handed 1
\* has seen the count reach zero.
cr_fetch_sub(H, id, t) ==
    LET old == cr_fetch_sub_returned(H, id)
        H1 == cr_access(H, id)
    IN [H1 EXCEPT !.ref_count[id] = IF @ = 0 THEN 0 ELSE @ - 1,
                  !.zero_seen[id] = IF old = 1 THEN @ \cup {t} ELSE @]

cr_fetch_add(H, id) ==
    [cr_access(H, id) EXCEPT !.ref_count[id] = @ + 1]

\* ts_free of a record by thread t.
cr_free(H, id, t) ==
    [H EXCEPT !.live[id] = FALSE,
              !.double_free = @ \/ ~H.live[id],
              !.freed_by[id] = @ \cup {t}]

CrThreadIdle(target, held) ==
    [pc |-> "idle", target |-> target, held |-> held,
     tree_stack |-> << >>, tree |-> 0, i |-> 0]

\* Every thread holds one tree; its root is one of the records that have
\* children.  A record is there when a thread or a parent refers to it.
InitConcurrentRelease ==
    /\ InitHeapVars
    /\ sm_children = << >>
    /\ sm_node = NULL_SUBTREE
    /\ ParseIdle
    /\ \E target \in [CrThreads -> CrRoots] :
         LET holders(id) == Cardinality({t \in CrThreads : target[t] = id})
             RECURSIVE Live(_)
             Live(id) == \/ holders(id) > 0
                         \/ \E p \in CrCells :
                              /\ p < id
                              /\ \E k \in 1..Len(CrChildren[p]) : CrChildren[p][k] = id
                              /\ Live(p)
             parents(id) == Cardinality({pk \in CrCells \X (1..2) :
                                /\ pk[2] <= Len(CrChildren[pk[1]])
                                /\ CrChildren[pk[1]][pk[2]] = id
                                /\ Live(pk[1])})
         IN /\ cr_heap = [live |-> [id \in CrCells |-> Live(id)],
                          ref_count |-> [id \in CrCells |->
                                           IF Live(id) THEN holders(id) + parents(id) ELSE 0],
                          zero_seen |-> [id \in CrCells |-> {}],
                          freed_by |-> [id \in CrCells |-> {}],
                          double_free |-> FALSE,
                          use_after_free |-> FALSE]
            /\ cr_thread = [t \in CrThreads |-> CrThreadIdle(target[t], 1)]
    /\ LexIdle
    /\ LangIdle
    /\ RangeIdle
    /\ ChangeIdle
    /\ StackIdle

\* ts_tree_copy: a thread that holds a tree retains its root.
CrTreeCopy(t) ==
    /\ cr_thread[t].pc = "idle"
    /\ cr_thread[t].held >= 1
    /\ cr_thread[t].held < MaxHeld
    /\ cr_heap' = cr_fetch_add(cr_heap, cr_thread[t].target)
    /\ cr_thread' = [cr_thread EXCEPT ![t].held = @ + 1]
    /\ UNCHANGED <<sumVars, heapVars, parseVars, lexVars, langVars, rangeVars, changeVars, stackVars>>

\* ts_tree_delete up to the fetch_sub on the root in ts_subtree_release.
CrReleaseRoot(t) ==
    /\ cr_thread[t].pc = "idle"
    /\ cr_thread[t].held >= 1
    /\ LET self_ == cr_thread[t].target IN
       /\ cr_heap' = cr_fetch_sub(cr_heap, self_, t)
       /\ cr_thread' = [cr_thread EXCEPT
             ![t].held = @ - 1,
             ![t].pc = "loop",
             ![t].tree_stack = IF cr_fetch_sub_returned(cr_heap, self_) = 1
                               THEN << self_ >> ELSE << >>]
    /\ UNCHANGED <<sumVars, heapVars, parseVars, lexVars, langVars, rangeVars, changeVars, stackVars>>

\* The head of the while loop: the release returns when the tree_stack is
\* empty; else a record is popped, and a leaf is given to the pool, whose
\* free_trees has no room, so it is freed.
CrPop(t) ==
    /\ cr_thread[t].pc = "loop"
    /\ LET stack == cr_thread[t].tree_stack IN
       IF Len(stack) = 0
       THEN /\ cr_thread' = [cr_thread EXCEPT ![t].pc = "idle"]
            /\ UNCHANGED cr_heap
       ELSE LET tree == stack[Len(stack)]
                rest == SubSeq(stack, 1, Len(stack) - 1)
            IN IF Len(CrChildren[tree]) > 0
               THEN /\ cr_heap' = cr_access(cr_heap, tree)
                    /\ cr_thread' = [cr_thread EXCEPT
                          ![t].tree_stack = rest, ![t].tree = tree,
                          ![t].i = 1, ![t].pc = "children"]
               ELSE /\ cr_heap' = cr_free(cr_access(cr_heap, tree), tree, t)
                    /\ cr_thread' = [cr_thread EXCEPT ![t].tree_stack = rest]
    /\ UNCHANGED <<sumVars, heapVars, parseVars, lexVars, langVars, rangeVars, changeVars, stackVars>>

\* One turn of the loop over the children of the popped record.
CrReleaseChild(t) ==
    /\ cr_thread[t].pc = "children"
    /\ cr_thread[t].i <= Len(CrChildren[cr_thread[t].tree])
    /\ LET tree == cr_thread[t].tree
           child == CrChildren[tree][cr_thread[t].i]
       IN IF child = 0
          THEN /\ cr_heap' = cr_access(cr_heap, tree)
               /\ cr_thread' = [cr_thread EXCEPT ![t].i = @ + 1]
          ELSE /\ cr_heap' = cr_fetch_sub(cr_access(cr_heap, tree), child, t)
               /\ cr_thread' = [cr_thread EXCEPT
                     ![t].i = @ + 1,
                     ![t].tree_stack =
                         IF cr_fetch_sub_returned(cr_heap, child) = 1
                         THEN Append(@, child) ELSE @]
    /\ UNCHANGED <<sumVars, heapVars, parseVars, lexVars, langVars, rangeVars, changeVars, stackVars>>

\* After the last child: ts_free of the children block, which holds the
\* record itself.
CrFreeChildren(t) ==
    /\ cr_thread[t].pc = "children"
    /\ cr_thread[t].i > Len(CrChildren[cr_thread[t].tree])
    /\ cr_heap' = cr_free(cr_heap, cr_thread[t].tree, t)
    /\ cr_thread' = [cr_thread EXCEPT ![t].pc = "loop", ![t].tree = 0, ![t].i = 0]
    /\ UNCHANGED <<sumVars, heapVars, parseVars, lexVars, langVars, rangeVars, changeVars, stackVars>>

NextConcurrentRelease ==
    \E t \in CrThreads :
        \/ CrTreeCopy(t)
        \/ CrReleaseRoot(t)
        \/ CrPop(t)
        \/ CrReleaseChild(t)
        \/ CrFreeChildren(t)

SpecConcurrentRelease == InitConcurrentRelease /\ [][NextConcurrentRelease]_vars

(***************************************************************************)
(* Specification SpecSummarize: parents built bottom-up from leaves.       *)
(***************************************************************************)
MaxPadding == 1
MaxChildren == 2
MaxHeight == 2

RECURSIVE Height(_)
Height(tree) ==
    IF Len(tree.children) = 0 THEN 0
    ELSE 1 + (LET hs == {Height(tree.children[i]) : i \in 1..Len(tree.children)}
              IN CHOOSE h \in hs : \A g \in hs : g <= h)

InitSummarize ==
    /\ sm_children = << >>
    /\ sm_node = NULL_SUBTREE
    /\ InitHeapVars
    /\ CrIdle
    /\ ParseIdle
    /\ LexIdle
    /\ LangIdle
    /\ RangeIdle
    /\ ChangeIdle
    /\ StackIdle

\* A token is lexed and pushed onto the children array.
SmPushLeaf ==
    /\ Len(sm_children) < MaxChildren
    /\ \E padding \in 0..MaxPadding :
         sm_children' = Append(sm_children,
                               ts_subtree_new_leaf(sym_x, padding, 1, 1, 0, FALSE))
    /\ UNCHANGED <<sm_node, heapVars, crVars, parseVars, lexVars, langVars, rangeVars, changeVars, stackVars>>

\* The parent built last is pushed onto the children array (one parent
\* per array: the trees built are chains of parents with leaves beside).
SmPushNode ==
    /\ ~IsNull(sm_node)
    /\ Len(sm_children) < MaxChildren
    /\ \A i \in 1..Len(sm_children) : Len(sm_children[i].children) = 0
    /\ Height(sm_node) < MaxHeight
    /\ sm_children' = Append(sm_children, sm_node)
    /\ sm_node' = NULL_SUBTREE
    /\ UNCHANGED <<heapVars, crVars, parseVars, lexVars, langVars, rangeVars, changeVars, stackVars>>

\* ts_subtree_new_node over the children array.
SmNewNode ==
    /\ IsNull(sm_node)
    /\ \E symbol \in {sym_pair, ts_builtin_sym_error} :
         sm_node' = ts_subtree_new_node(symbol, sm_children, 0)
    /\ sm_children' = << >>
    /\ UNCHANGED <<heapVars, crVars, parseVars, lexVars, langVars, rangeVars, changeVars, stackVars>>

NextSummarize == SmPushLeaf \/ SmPushNode \/ SmNewNode

SpecSummarize == InitSummarize /\ [][NextSummarize]_vars

RECURSIVE SumTotalBytes(_, _)
SumTotalBytes(children, i) ==
    IF i > Len(children) THEN 0
    ELSE ts_subtree_total_bytes(children[i]) + SumTotalBytes(children, i + 1)

RECURSIVE AllNodes(_)
AllNodes(tree) ==
    IF Len(tree.children) = 0 THEN {}
    ELSE {tree} \cup UNION {AllNodes(tree.children[i]) : i \in 1..Len(tree.children)}

SmParents == IF IsNull(sm_node) THEN {} ELSE AllNodes(sm_node)

\* C10 as stated: a summarised parent's size.bytes is the sum of its
\* children's total_bytes, and its padding is its first child's padding.
C10_SizeIsSumOfTotals ==
    \A n \in SmParents :
        /\ n.size = SumTotalBytes(n.children, 1)
        /\ n.padding = ts_subtree_padding(n.children[1])

\* C10 amended: total_bytes is padding + size; a summarised parent's padding
\* is its first child's padding, and its padding and size together are the
\* sum of its children's total_bytes (the size leaves the first padding out).
C10_TotalIsSumOfTotals ==
    \A n \in SmParents :
        /\ ts_subtree_total_bytes(n) = n.padding + n.size
        /\ n.padding = ts_subtree_padding(n.children[1])
        /\ n.padding + n.size = SumTotalBytes(n.children, 1)
        /\ n.size = SumTotalBytes(n.children, 1) - ts_subtree_padding(n.children[1])

\* C10 witness: a parent of two children whose first child has padding.
C10_Witness ==
    /\ ~IsNull(sm_node)
    /\ Len(sm_node.children) = 2
    /\ ts_subtree_padding(sm_node.children[1]) > 0
    /\ ts_subtree_padding(sm_node.children[2]) > 0

\* C6: a heap record is live exactly while references to it exist, its
\* ref_count is the number of those references (the callers' and one for each
\* place in a live parent's children array, so that a parent freed took one
\* reference from each child), no record is freed twice or used after it
\* was freed, and once the callers hold no reference no record is allocated.
C6_FreedExactlyAtZero ==
    /\ \A id \in HeapCells :
          /\ hp.cells[id].state = "live" => /\ hp.cells[id].ref_count >= 1
                                            /\ hp.cells[id].ref_count = References(id)
          /\ hp.cells[id].state # "live" => References(id) = 0
    /\ ~hp.double_free
    /\ ~hp.use_after_free
    /\ (\A id \in HeapCells : hp_owned[id] = 0)
          => \A id \in HeapCells : hp.cells[id].state # "live"

\* A release dropped the last reference to a parent: the parent and a child
\* whose only reference it held were freed, and nothing is left.
C6_Witness ==
    /\ Cardinality(hp_last.freed) >= 2
    /\ \A id \in HeapCells : hp_owned[id] = 0 /\ hp.cells[id].state # "live"
    /\ Len(hp.pool) > 0

\* C7: no record was written in place while its ref_count was above 1.
C7_NoSharedWrite == ~hp.shared_write

\* A shared record was to be written: make_mut cloned it, the clone was
\* written and the shared record is as it was.
C7_Witness ==
    /\ hp_last.cloned
    /\ \E a \in HeapCells, b \in HeapCells :
          /\ a # b
          /\ hp.cells[a].state = "live" /\ hp.cells[b].state = "live"
          /\ Len(hp.cells[a].children) > 0
          /\ hp.cells[a].children = hp.cells[b].children
          /\ \/ hp.cells[a].extra # hp.cells[b].extra
             \/ hp.cells[a].has_changes # hp.cells[b].has_changes

\* C8: of the threads that release references to a record at the same time,
\* at most one is handed 1 by fetch_sub (sees the count reach zero); a record
\* is freed only by that thread, only once, and no thread touches a record
\* after it was freed; the records whose references were all released are
\* freed when the threads are done.
C8_OneThreadFrees ==
    /\ \A id \in CrCells :
          /\ Cardinality(cr_heap.zero_seen[id]) <= 1
          /\ cr_heap.freed_by[id] \subseteq cr_heap.zero_seen[id]
          /\ cr_heap.ref_count[id] > 0 => cr_heap.live[id]
    /\ ~cr_heap.double_free
    /\ ~cr_heap.use_after_free
    /\ (\A t \in CrThreads : cr_thread[t].pc = "idle" /\ cr_thread[t].held = 0)
          => \A id \in CrCells : ~cr_heap.live[id]

\* Two threads are inside ts_subtree_release for the same root at once: one
\* was handed 1 and is releasing the children, the other has decremented
\* and found nothing to free.
C8_Witness ==
    \E t1 \in CrThreads, t2 \in CrThreads :
        /\ t1 # t2
        /\ cr_thread[t1].target = cr_thread[t2].target
        /\ cr_thread[t1].pc = "children"
        /\ cr_thread[t1].tree = cr_thread[t1].target
        /\ cr_thread[t2].pc = "loop"
        /\ cr_thread[t2].tree_stack = << >>
        /\ cr_heap.zero_seen[cr_thread[t1].target] = {t1}

(***************************************************************************)
(* The parser.                                                             *)
(*                                                                         *)
(* The language's parse table (the data of a TSLanguage for the grammar    *)
(* above).  State 0 is the error state, state 1 the start state:           *)
(*     1: . source_file        2: 'x' . 'y'         3: pair .  |  pair . pair *)
(*     4: _rep .  |  _rep . pair                    5: source_file .       *)
(*     6: 'x' 'y' .            7: pair pair .       8: _rep pair .         *)
(* The hidden token _comment is an extra: it is shifted in every state.    *)
(* The states 9 to 14 follow one to six 'a' of u, 15 follows u, 16 to 21   *)
(* follow one to six 'a' of v, 22 follows v, 23 the 'o' and 24 the 'q'.    *)
(* After fewer than six 'a' of u the entry of 'a' holds two actions: u     *)
(* ends here, or goes on.  No action has a dynamic                         *)
(* State 25 follows the 'k': its entry of 'a' holds the reductions to every *)
(* h_i.  The states 25 + i follow h_i, one state follows the 'a' (its      *)
(* entry of 'q' holds the reductions to every b_j), and then one state     *)
(* follows each h_i b_j and one each h_i b_j 'q'.  No action has a dynamic *)
(* precedence; all states share one lex mode; there is no keyword capture  *)
(* token and no external scanner.                                          *)
(***************************************************************************)
STACK_VERSION_NONE == 0 - 1
MAX_VERSION_COUNT == 6
MAX_VERSION_COUNT_OVERFLOW == 4
MAX_SUMMARY_DEPTH == 16
MAX_COST_DIFFERENCE == 18 * ERROR_COST_PER_SKIPPED_TREE
OP_COUNT_PER_PARSER_CALLBACK_CHECK == 100
MAX_LINK_COUNT == 8
MAX_ITERATOR_COUNT == 64

token_count == sym_k + 1
RunLength == MAX_VERSION_COUNT

\* The states of the head of two conflicts.
state_after_h(i) == 25 + i
state_after_a == state_after_h(Heads) + 1
state_after_b(i, j) == state_after_a + (i - 1) * Bodies + j
state_after_q(i, j) == state_after_b(i, j) + Heads * Bodies

ts_parse_actions(state, symbol) ==
    LET action(type_, next, extra, sym, n) ==
            [type_ |-> type_, state |-> next, extra |-> extra, repetition |-> FALSE,
             symbol |-> sym, child_count |-> n, dynamic_precedence |-> 0,
             production_id |-> 0]
        SHIFT(next) == [reusable |-> TRUE, actions |-> <<action("Shift", next, FALSE, 0, 0)>>]
        SHIFT_EXTRA == [reusable |-> TRUE, actions |-> <<action("Shift", 0, TRUE, 0, 0)>>]
        REDUCE(sym, n) == [reusable |-> TRUE, actions |-> <<action("Reduce", 0, FALSE, sym, n)>>]
        ACCEPT_INPUT == [reusable |-> TRUE, actions |-> <<action("Accept", 0, FALSE, 0, 0)>>]
        RECOVER == [reusable |-> FALSE, actions |-> <<action("Recover", 0, FALSE, 0, 0)>>]
        REDUCE_OR_SHIFT(sym, n, next) ==
            [reusable |-> FALSE, actions |-> <<action("Reduce", 0, FALSE, sym, n),
                                               action("Shift", next, FALSE, 0, 0)>>]
        REDUCE_EACH(count, sym(_), n) ==
            [reusable |-> FALSE,
             actions |-> [i \in 1..count |-> action("Reduce", 0, FALSE, sym(i), n)]]
        NO_ACTIONS == [reusable |-> FALSE, actions |-> << >>]
    IN IF symbol = sym_comment THEN SHIFT_EXTRA
       ELSE IF state = ERROR_STATE THEN RECOVER
       ELSE IF state \in {1, 3, 4} /\ symbol = sym_x THEN SHIFT(2)
       ELSE IF state = 2 /\ symbol = sym_y THEN SHIFT(6)
       ELSE IF state \in {3, 4} /\ symbol = ts_builtin_sym_end
            THEN REDUCE(sym_source_file, 1)
       ELSE IF state = 5 /\ symbol = ts_builtin_sym_end THEN ACCEPT_INPUT
       ELSE IF state = 6 /\ symbol \in {sym_x, ts_builtin_sym_end}
            THEN REDUCE(sym_pair, 2)
       ELSE IF state \in {7, 8} /\ symbol \in {sym_x, ts_builtin_sym_end}
            THEN REDUCE(aux_sym_rep, 2)
       ELSE IF state = 1 /\ symbol = sym_a THEN SHIFT(9)
       ELSE IF state \in 9..(7 + RunLength) /\ symbol = sym_a
            THEN REDUCE_OR_SHIFT(sym_u, state - 8, state + 1)
       ELSE IF state = 8 + RunLength /\ symbol = sym_a THEN REDUCE(sym_u, RunLength)
       ELSE IF state \in 15..(14 + RunLength) /\ symbol = sym_a THEN SHIFT(state + 1)
       ELSE IF state \in 16..(15 + RunLength) /\ symbol = sym_o
            THEN REDUCE(sym_v, state - 15)
       ELSE IF state = 22 /\ symbol = sym_o THEN SHIFT(23)
       ELSE IF state = 23 /\ symbol = sym_q THEN SHIFT(24)
       ELSE IF state = 24 /\ symbol = ts_builtin_sym_end
            THEN REDUCE(sym_source_file, 4)
       ELSE IF state = 1 /\ symbol = sym_k THEN SHIFT(25)
       ELSE IF state = 25 /\ symbol = sym_a THEN REDUCE_EACH(Heads, sym_h, 1)
       ELSE IF state \in state_after_h(1)..state_after_h(Heads) /\ symbol = sym_a
            THEN SHIFT(state_after_a)
       ELSE IF state = state_after_a /\ symbol = sym_q THEN REDUCE_EACH(Bodies, sym_b, 1)
       ELSE IF state \in state_after_b(1, 1)..state_after_b(Heads, Bodies)
               /\ symbol = sym_q
            THEN SHIFT(state + Heads * Bodies)
       ELSE IF state \in state_after_q(1, 1)..state_after_q(Heads, Bodies)
               /\ symbol = ts_builtin_sym_end
            THEN REDUCE(sym_source_file, 3)
       ELSE NO_ACTIONS

\* The successor state of a non-terminal (0 where the table has none).
ts_language_lookup(state, symbol) ==
    IF state = 1 /\ symbol = sym_pair THEN 3
    ELSE IF state = 1 /\ symbol = aux_sym_rep THEN 4
    ELSE IF state = 1 /\ symbol = sym_source_file THEN 5
    ELSE IF state = 3 /\ symbol = sym_pair THEN 7
    ELSE IF state = 4 /\ symbol = sym_pair THEN 8
    ELSE IF state = 1 /\ symbol = sym_u THEN 15
    ELSE IF state = 15 /\ symbol = sym_v THEN 22
    ELSE IF state = 1 /\ symbol \in sym_h(1)..sym_h(Heads)
    THEN state_after_h(symbol - sym_v)
    ELSE IF state \in state_after_h(1)..state_after_h(Heads)
            /\ symbol \in sym_b(1)..sym_b(Bodies)
    THEN state_after_b(state - 25, symbol - sym_v - Heads)
    ELSE 0

table_entry_of(entry) ==
    [action_count |-> Len(entry.actions), is_reusable |-> entry.reusable,
     actions |-> entry.actions]

ts_language_table_entry(state, symbol) ==
    IF symbol = ts_builtin_sym_error \/ symbol = ts_builtin_sym_error_repeat
    THEN [action_count |-> 0, is_reusable |-> FALSE, actions |-> << >>]
    ELSE table_entry_of(ts_parse_actions(state, symbol))

ts_language_has_actions(state, symbol) ==
    Len(ts_parse_actions(state, symbol).actions) # 0

has_reduce_action_in(entry) ==
    entry.action_count > 0 /\ entry.actions[1].type_ = "Reduce"

ts_language_has_reduce_action(state, symbol) ==
    has_reduce_action_in(ts_language_table_entry(state, symbol))

next_state_of_entry(state, entry) ==
    IF entry.action_count > 0 /\ entry.actions[entry.action_count].type_ = "Shift"
    THEN (IF entry.actions[entry.action_count].extra
          THEN state ELSE entry.actions[entry.action_count].state)
    ELSE 0

ts_language_next_state(state, symbol) ==
    IF symbol = ts_builtin_sym_error \/ symbol = ts_builtin_sym_error_repeat THEN 0
    ELSE IF symbol < token_count
    THEN next_state_of_entry(state, ts_language_table_entry(state, symbol))
    ELSE ts_language_lookup(state, symbol)

ts_language_lex_mode_for_state(state) ==
    [lex_state |-> 0, external_lex_state |-> 0, reserved_word_set_id |-> 0]

(***************************************************************************)
(* The text and the lexer.  A text is a sequence of one-byte characters:   *)
(* "x" and "y" are the tokens of a pair, "c" is a _comment, "a", "o" and   *)
(* "q" are the tokens of the two runs, "k" is the token of the head of two *)
(* conflicts, "?" is a character no token starts with.  The language's lex function finds a    *)
(* token at a byte offset, or does not.                                    *)
(***************************************************************************)
TextChars == {"x", "y", "c", "?"}

ts_lex(text, position) ==
    IF position >= Len(text)
    THEN [found |-> TRUE, symbol |-> ts_builtin_sym_end, end |-> position]
    ELSE LET c == text[position + 1]
         IN [found |-> c # "?",
             symbol |-> IF c = "x" THEN sym_x ELSE IF c = "y" THEN sym_y
                        ELSE IF c = "a" THEN sym_a ELSE IF c = "o" THEN sym_o
                        ELSE IF c = "q" THEN sym_q
                        ELSE IF c = "k" THEN sym_k ELSE sym_comment,
             end |-> position + 1]

\* The external scanner.  The parser's language (has_scanner) either has
\* none, or is a wasm language with a scanner that is valid in every lex mode
\* and recognises no token:
\* ts_parser__lex calls it before the lex function and goes on to the lex
\* function.  The parser's wasm store runs the scanner; wasm_store_error says
\* that the store reports an error (ts_wasm_store_has_error) after the
\* scanner call to come.  A payload is null or the scanner's address.
NULL_PAYLOAD == [null |-> TRUE]

\* A TSLanguage as ts_parser_set_language looks at it: its ABI version and
\* whether it is a wasm language; and the null pointer.  A wasm store is
\* there or not.
NULL_LANGUAGE == [null |-> TRUE]
TSLanguage(abi_version, is_wasm) == [abi_version |-> abi_version, is_wasm |-> is_wasm]
ts_language_is_wasm(language) == language # NULL_LANGUAGE /\ language.is_wasm
SCANNER_PAYLOAD == [address |-> 1]

ts_wasm_store_has_error(P) == P.wasm_store_error

ts_parser__external_scanner_create(P) ==
    IF P.has_scanner
    THEN [P EXCEPT !.external_scanner_payload = SCANNER_PAYLOAD,
                   !.has_scanner_error = @ \/ ts_wasm_store_has_error(P)]
    ELSE P

ts_parser__external_scanner_scan(P) ==
    IF P.has_scanner
    THEN [P EXCEPT !.has_scanner_error = @ \/ ts_wasm_store_has_error(P)]
    ELSE P

\* The offset at which the lexer, skipping one character after another,
\* finds a token again.
RECURSIVE lex_skip(_, _)
lex_skip(text, position) ==
    IF ts_lex(text, position).found THEN position
    ELSE lex_skip(text, position + 1)

\* ts_parser__lex: the token at start_position, or an ERROR leaf over the
\* characters skipped until a token is found.  The lexer has looked one
\* byte beyond the place it stopped at.
ts_parser__lex(text, start_position, parse_state) ==
    LET first == ts_lex(text, start_position)
        error_end_position == lex_skip(text, start_position)
        last == ts_lex(text, error_end_position)
    IN IF first.found
       THEN ts_subtree_new_leaf(first.symbol, length_zero,
                                length_sub(first.end, start_position),
                                (first.end + 1) - first.end, parse_state, FALSE)
       ELSE ts_subtree_new_error(length_zero,
                                 length_sub(error_end_position, start_position),
                                 (last.end + 1) - error_end_position, parse_state)

(***************************************************************************)
(* The parse stack.  S is the Stack: S.heads are the versions (version v   *)
(* of the code is S.heads[v + 1]) and S.nodes are the StackNodes, a node   *)
(* standing for its address by its number; node 1 is the base node.  A     *)
(* link is [node, subtree, is_pending] and links[1] is links[0] of the     *)
(* code.  A node that nothing refers to any more keeps its number: the     *)
(* node pool and the nodes' ref_count decide when memory is used again,    *)
(* never what a live node holds.                                           *)
(***************************************************************************)
Max(a, b) == IF a > b THEN a ELSE b
Reverse(s) == [k \in 1..Len(s) |-> s[Len(s) + 1 - k]]
RemoveAt(s, k) == SubSeq(s, 1, k - 1) \o SubSeq(s, k + 1, Len(s))
InsertAt(s, k, e) == SubSeq(s, 1, k - 1) \o <<e>> \o SubSeq(s, k, Len(s))

stack__subtree_node_count(subtree) ==
    ts_subtree_visible_descendant_count(subtree)
    + (IF ts_subtree_visible(subtree) THEN 1 ELSE 0)
    + (IF ts_subtree_symbol(subtree) = ts_builtin_sym_error_repeat THEN 1 ELSE 0)

\* u32::MAX, the value min_error_cost starts from and a count of zero wraps
\* to.  The largest integer of the checker stands for it; no cost and no
\* count of the model comes near either.
u32_MAX == 2147483647

\* S.ref_count[n] is the ref_count of node n.
stack_node_retain(S, node) == [S EXCEPT !.ref_count[node] = @ + 1]

\* stack_node_release: the count goes down, and a node whose count reaches
\* zero goes to the node pool or is freed, after its links were released:
\* the later links by the calls in the loop, links[0] by the function's own
\* loop.  A count of zero would wrap around (the release build).
RECURSIVE stack_node_release(_, _)
RECURSIVE release_later_links(_, _, _)
release_later_links(S, node, i) ==
    IF i <= 1 THEN S
    ELSE release_later_links(stack_node_release(S, S.nodes[node].links[i].node),
                             node, i - 1)

stack_node_release(S, node) ==
    CASE S.ref_count[node] = 0 -> [S EXCEPT !.ref_count[node] = u32_MAX]
      [] S.ref_count[node] > 1 -> [S EXCEPT !.ref_count[node] = @ - 1]
      [] S.ref_count[node] = 1 /\ Len(S.nodes[node].links) = 0 ->
            [S EXCEPT !.ref_count[node] = 0]
      [] OTHER ->
            stack_node_release(
                release_later_links([S EXCEPT !.ref_count[node] = 0], node,
                                    Len(S.nodes[node].links)),
                S.nodes[node].links[1].node)

\* The references on subtrees that the heads of the stack hold: for each
\* subtree, the calls of ts_subtree_retain less the calls of
\* ts_subtree_release that the stack made for it, a reference that
\* ts_stack_pause took over counted as retained and one that ts_stack_resume
\* gave back as released.  A subtree without references is not in the domain.
no_subtree_refs == [tree \in {} |-> 0]

subtree_ref_count(S, tree) ==
    IF tree \in DOMAIN S.subtree_refs THEN S.subtree_refs[tree] ELSE 0

with_subtree_ref_count(S, tree, count) ==
    [S EXCEPT !.subtree_refs =
        IF count = 0 THEN [t \in DOMAIN @ \ {tree} |-> @[t]]
        ELSE [t \in DOMAIN @ \cup {tree} |-> IF t = tree THEN count ELSE @[t]]]

\* ts_subtree_retain and ts_subtree_release under their null checks.
head_subtree_retain(S, tree) ==
    IF IsNull(tree) THEN S
    ELSE with_subtree_ref_count(S, tree, subtree_ref_count(S, tree) + 1)

head_subtree_release(S, tree) ==
    IF IsNull(tree) THEN S
    ELSE with_subtree_ref_count(S, tree, subtree_ref_count(S, tree) - 1)

\* stack_head_delete: the last external token and the lookahead of a paused
\* head are released, then the node of the head.
stack_head_delete(S, version) ==
    stack_node_release(
        head_subtree_release(
            head_subtree_release(S, S.heads[version + 1].last_external_token),
            S.heads[version + 1].lookahead_when_paused),
        S.heads[version + 1].node)

\* A node on top of previous_node; it gets the next number.
stack_node_new(S, previous_node, subtree, is_pending, state) ==
    LET node(copied) ==
            IF IsNull(subtree) THEN copied
            ELSE [copied EXCEPT
                    !.error_cost = @ + ts_subtree_error_cost(subtree),
                    !.position = length_add(@, ts_subtree_total_size(subtree)),
                    !.node_count = @ + stack__subtree_node_count(subtree),
                    !.dynamic_precedence = @ + ts_subtree_dynamic_precedence(subtree)]
        after(previous) ==
            node([state |-> state,
                  position |-> previous.position,
                  error_cost |-> previous.error_cost,
                  dynamic_precedence |-> previous.dynamic_precedence,
                  node_count |-> previous.node_count,
                  links |-> << [node |-> previous_node, subtree |-> subtree,
                                is_pending |-> is_pending] >>])
    IN [S EXCEPT !.nodes = Append(@, after(S.nodes[previous_node])),
                 !.ref_count = Append(@, 1)]

\* Two subtrees at the same address are equal values, and equal values pass
\* every comparison below; two null subtrees are the same address.
stack__subtree_is_equivalent(left, right) ==
    IF IsNull(left) /\ IsNull(right) THEN TRUE
    ELSE IF IsNull(left) \/ IsNull(right) THEN FALSE
    ELSE IF ts_subtree_symbol(left) # ts_subtree_symbol(right) THEN FALSE
    ELSE IF ts_subtree_error_cost(left) > 0 /\ ts_subtree_error_cost(right) > 0 THEN TRUE
    ELSE /\ ts_subtree_padding(left) = ts_subtree_padding(right)
         /\ ts_subtree_size(left) = ts_subtree_size(right)
         /\ ts_subtree_child_count(left) = ts_subtree_child_count(right)
         /\ ts_subtree_extra(left) = ts_subtree_extra(right)

RECURSIVE stack_node_add_link(_, _, _)
RECURSIVE add_link_from(_, _, _, _)
RECURSIVE add_links_of(_, _, _, _)

\* stack_node_add_link for each link of node `from`, the j-th first.
add_links_of(S, self_, from, j) ==
    IF j > Len(S.nodes[from].links) THEN S
    ELSE add_links_of(stack_node_add_link(S, self_, S.nodes[from].links[j]),
                      self_, from, j + 1)

\* The loop of stack_node_add_link over the existing links, from the i-th,
\* and what follows the loop.
add_link_from(S, self_, link, i) ==
    LET node == S.nodes[self_]
        target == S.nodes[link.node]
        with_subtree(base, count) == IF IsNull(link.subtree) THEN base ELSE base + count
    IN IF i > Len(node.links)
       THEN IF Len(node.links) = MAX_LINK_COUNT THEN S
            ELSE LET node_count ==
                         with_subtree(target.node_count,
                                      stack__subtree_node_count(link.subtree))
                     dynamic_precedence ==
                         with_subtree(target.dynamic_precedence,
                                      ts_subtree_dynamic_precedence(link.subtree))
                 IN [stack_node_retain(S, link.node) EXCEPT !.nodes[self_] =
                       [@ EXCEPT !.links = Append(@, link),
                                 !.node_count = Max(@, node_count),
                                 !.dynamic_precedence = Max(@, dynamic_precedence)]]
       ELSE LET existing_link == node.links[i]
                existing_node == S.nodes[existing_link.node]
            IN IF ~stack__subtree_is_equivalent(existing_link.subtree, link.subtree)
               THEN add_link_from(S, self_, link, i + 1)
               ELSE IF existing_link.node = link.node
               THEN IF ts_subtree_dynamic_precedence(link.subtree)
                         > ts_subtree_dynamic_precedence(existing_link.subtree)
                    THEN [S EXCEPT !.nodes[self_] =
                            [@ EXCEPT !.links[i].subtree = link.subtree,
                                      !.dynamic_precedence =
                                          target.dynamic_precedence
                                          + ts_subtree_dynamic_precedence(link.subtree)]]
                    ELSE S
               ELSE IF /\ existing_node.state = target.state
                       /\ existing_node.position = target.position
                       /\ existing_node.error_cost = target.error_cost
               THEN LET merged == add_links_of(S, existing_link.node, link.node, 1)
                        dynamic_precedence ==
                            with_subtree(merged.nodes[link.node].dynamic_precedence,
                                         ts_subtree_dynamic_precedence(link.subtree))
                    IN [merged EXCEPT !.nodes[self_].dynamic_precedence =
                                          Max(@, dynamic_precedence)]
               ELSE add_link_from(S, self_, link, i + 1)

stack_node_add_link(S, self_, link) ==
    IF link.node = self_ THEN S ELSE add_link_from(S, self_, link, 1)

\* A mutant of ts_stack__add_version: the node of the new head is not
\* retained.
ts_stack__add_version_without_retain(S, original_version, node) ==
    [head_subtree_retain(S, S.heads[original_version + 1].last_external_token)
     EXCEPT !.heads = Append(@,
        [node |-> node,
         node_count_at_last_error |-> S.heads[original_version + 1].node_count_at_last_error,
         status |-> "Active",
         lookahead_when_paused |-> NULL_SUBTREE,
         last_external_token |-> S.heads[original_version + 1].last_external_token,
         summary |-> NULL_SUBTREE])]

ts_stack__add_version(S, original_version, node) ==
    [head_subtree_retain(stack_node_retain(S, node),
                         S.heads[original_version + 1].last_external_token)
     EXCEPT !.heads = Append(@,
        [node |-> node,
         node_count_at_last_error |-> S.heads[original_version + 1].node_count_at_last_error,
         status |-> "Active",
         lookahead_when_paused |-> NULL_SUBTREE,
         last_external_token |-> S.heads[original_version + 1].last_external_token,
         summary |-> NULL_SUBTREE])]

\* I.slices gets the slice, behind the last slice whose version stands on
\* the same node, or with a new version.
ts_stack__add_slice(I, original_version, node, subtrees) ==
    LET same == {k \in 1..Len(I.slices) :
                    I.S.heads[I.slices[k].version + 1].node = node}
        last == CHOOSE k \in same : \A other \in same : other <= k
    IN IF same # {}
       THEN [I EXCEPT !.slices = InsertAt(@, last + 1,
                          [subtrees |-> subtrees, version |-> I.slices[last].version])]
       ELSE [I EXCEPT !.S = ts_stack__add_version(I.S, original_version, node),
                      !.slices = Append(@, [subtrees |-> subtrees,
                                            version |-> Len(I.S.heads)])]

\* The callbacks of stack__iter: what to do at an iterator ([pop, stop]) and
\* the callback's payload afterwards.  The payload is the goal count of
\* pop_count, the found_error flag of pop_error, and the session (summary,
\* max_depth) of summarize_stack.
\* A callback of pop_count that gives a walk up at a node of several links.
stack_callback_leaving_forks(callback, payload, iterator, node) ==
    IF iterator.subtree_count = payload
    THEN [pop |-> TRUE, stop |-> TRUE, payload |-> payload]
    ELSE [pop |-> FALSE, stop |-> Len(node.links) > 1, payload |-> payload]

stack_callback(callback, payload, iterator, node) ==
    LET answer(pop, stop) == [pop |-> pop, stop |-> stop, payload |-> payload] IN
    CASE callback = "pop_count" ->
           IF iterator.subtree_count = payload THEN answer(TRUE, TRUE)
           ELSE answer(FALSE, FALSE)
      [] callback = "pop_pending" ->
           IF iterator.subtree_count >= 1
           THEN (IF iterator.is_pending THEN answer(TRUE, TRUE) ELSE answer(FALSE, TRUE))
           ELSE answer(FALSE, FALSE)
      [] callback = "pop_error" ->
           IF Len(iterator.subtrees) > 0
           THEN IF ~payload /\ ts_subtree_is_error(iterator.subtrees[1])
                THEN [pop |-> TRUE, stop |-> TRUE, payload |-> TRUE]
                ELSE answer(FALSE, TRUE)
           ELSE answer(FALSE, FALSE)
      [] callback = "pop_all" ->
           IF Len(node.links) = 0 THEN answer(TRUE, FALSE) ELSE answer(FALSE, FALSE)
      [] callback = "summarize_stack" ->
           LET depth == iterator.subtree_count
               summary == payload.summary
               \* the entries the backwards scan looks at: those behind the
               \* last entry of a smaller depth
               smaller == {k \in 1..Len(summary) : summary[k].depth < depth}
               first == IF smaller = {} THEN 1
                        ELSE 1 + CHOOSE k \in smaller : \A other \in smaller : other <= k
               known == \E k \in first..Len(summary) :
                            summary[k].depth = depth /\ summary[k].state = node.state
           IN IF depth > payload.max_depth THEN answer(FALSE, TRUE)
              ELSE IF known THEN answer(FALSE, FALSE)
              ELSE [pop |-> FALSE, stop |-> FALSE,
                    payload |-> [payload EXCEPT !.summary =
                        Append(@, [position |-> node.position, depth |-> depth,
                                   state |-> node.state])]]

RECURSIVE iter_links(_, _, _, _, _)
RECURSIVE iter_pass(_, _, _, _, _, _)
RECURSIVE iter_loop(_, _, _, _)
RECURSIVE iter_passes(_, _, _, _, _)
RECURSIVE iter_visit(_, _, _, _, _, _, _)
RECURSIVE iter_next(_, _, _, _, _, _, _, _)

\* The iterator moved over one link.
iter_step(iterator, link, include_subtrees) ==
    LET moved == [iterator EXCEPT !.node = link.node] IN
    IF IsNull(link.subtree)
    THEN [moved EXCEPT !.subtree_count = @ + 1, !.is_pending = FALSE]
    ELSE LET pushed == IF include_subtrees
                       THEN [moved EXCEPT !.subtrees = Append(@, link.subtree)]
                       ELSE moved
         IN IF ts_subtree_extra(link.subtree) THEN pushed
            ELSE [pushed EXCEPT !.subtree_count = @ + 1,
                                !.is_pending = IF link.is_pending THEN @ ELSE FALSE]

\* The loop over the links of the node of iterator i: every link but the
\* first gets a copy of the iterator, pushed behind the others, and the
\* first link (taken last) moves the iterator itself.
iter_links(I, i, current, j, include_subtrees) ==
    LET node == I.S.nodes[current.node] IN
    IF j > Len(node.links) THEN I
    ELSE IF j = Len(node.links)
    THEN [I EXCEPT !.iterators[i] = iter_step(current, node.links[1], include_subtrees)]
    ELSE IF Len(I.iterators) >= MAX_ITERATOR_COUNT
    THEN iter_links(I, i, current, j + 1, include_subtrees)
    ELSE iter_links([I EXCEPT !.iterators =
                        Append(@, iter_step(current, node.links[j + 1], include_subtrees))],
                    i, current, j + 1, include_subtrees)

\* One pass over the first `size` iterators, from the i-th.
iter_visit(I, version, callback, i, size, include_subtrees, action) ==
    LET iterator == I.iterators[i]
        node == I.S.nodes[iterator.node]
        should_stop == action.stop \/ Len(node.links) = 0
        called == [I EXCEPT !.payload = action.payload]
    IN iter_next(IF action.pop
                 THEN ts_stack__add_slice(called, version, iterator.node,
                                          Reverse(iterator.subtrees))
                 ELSE called,
                 version, callback, i, size, include_subtrees, iterator, should_stop)

iter_next(popped, version, callback, i, size, include_subtrees, iterator, should_stop) ==
    IF should_stop
    THEN iter_pass([popped EXCEPT !.iterators = RemoveAt(@, i)],
                   version, callback, i, size - 1, include_subtrees)
    ELSE iter_pass(iter_links(popped, i, iterator, 1, include_subtrees),
                   version, callback, i + 1, size, include_subtrees)

iter_pass(I, version, callback, i, size, include_subtrees) ==
    IF i > size THEN I
    ELSE iter_visit(I, version, callback, i, size, include_subtrees,
                    stack_callback(callback, I.payload, I.iterators[i],
                                   I.S.nodes[I.iterators[i].node]))

\* At most n turns of the loop of stack__iter, in their order.  More than
\* one turn is taken in two halves, which keeps the evaluation shallow on a
\* stack of a hundred nodes.
iter_passes(I, version, callback, include_subtrees, n) ==
    IF Len(I.iterators) = 0 THEN I
    ELSE IF n <= 1
    THEN iter_pass(I, version, callback, 1, Len(I.iterators), include_subtrees)
    ELSE iter_passes(iter_passes(I, version, callback, include_subtrees, n \div 2),
                     version, callback, include_subtrees, n - n \div 2)

\* The loop of stack__iter: turns until no iterator is left.
iter_loop(I, version, callback, include_subtrees) ==
    IF Len(I.iterators) = 0 THEN I
    ELSE iter_loop(iter_passes(I, version, callback, include_subtrees, Len(I.S.nodes)),
                   version, callback, include_subtrees)

\* stack__iter: the stack (with the versions added for the slices), the
\* slices, and the payload the callback leaves.
stack__iter(S, version, callback, payload, goal_subtree_count) ==
    iter_loop([S |-> S, slices |-> << >>, payload |-> payload,
               iterators |-> << [node |-> S.heads[version + 1].node,
                                 subtrees |-> << >>,
                                 subtree_count |-> 0,
                                 is_pending |-> TRUE] >>],
              version, callback, goal_subtree_count >= 0)

\* The loop of ts_stack_clear: stack_head_delete for every head.
RECURSIVE clear_heads(_, _)
clear_heads(S, i) ==
    IF i >= Len(S.heads) THEN S ELSE clear_heads(stack_head_delete(S, i), i + 1)

\* ts_stack_clear: the base node is retained for the new head, the heads
\* are deleted, and one Active version stands on the base node.  The nodes
\* that the heads held are no nodes of the stack any more.
ts_stack_clear(S) ==
    [heads |-> << [node |-> 1,
                   status |-> "Active",
                   lookahead_when_paused |-> NULL_SUBTREE,
                   last_external_token |-> NULL_SUBTREE,
                   summary |-> NULL_SUBTREE,
                   node_count_at_last_error |-> 0] >>,
     nodes |-> << S.nodes[1] >>,
     ref_count |-> << clear_heads(stack_node_retain(S, 1), 0).ref_count[1] >>,
     subtree_refs |-> clear_heads(stack_node_retain(S, 1), 0).subtree_refs,
     renumber |-> [asserted |-> S.renumber.asserted, moved |-> FALSE]]

\* ts_stack_new: the base node comes from ts_malloc, and stack_node_new, given
\* no previous node, writes its state, position and error_cost (and its
\* ref_count and link_count); its node_count and dynamic_precedence keep what
\* the memory held.
ts_stack_new(uninitialized) ==
    ts_stack_clear([heads |-> << >>,
                    nodes |-> << [state |-> 1,
                                  position |-> length_zero,
                                  error_cost |-> 0,
                                  node_count |-> uninitialized.node_count,
                                  dynamic_precedence |-> uninitialized.dynamic_precedence,
                                  links |-> << >>] >>,
                    ref_count |-> << 1 >>,
                    subtree_refs |-> no_subtree_refs,
                    renumber |-> [asserted |-> TRUE, moved |-> FALSE]])

ts_stack_version_count(S) == Len(S.heads)
ts_stack_halted_version_count(S) ==
    Cardinality({k \in 1..Len(S.heads) : S.heads[k].status = "Halted"})
ts_stack_head_node(S, version) == S.nodes[S.heads[version + 1].node]
ts_stack_state(S, version) == ts_stack_head_node(S, version).state
ts_stack_position(S, version) == ts_stack_head_node(S, version).position
ts_stack_dynamic_precedence(S, version) == ts_stack_head_node(S, version).dynamic_precedence
ts_stack_get_summary(S, version) == S.heads[version + 1].summary
ts_stack_is_active(S, version) == S.heads[version + 1].status = "Active"
ts_stack_is_halted(S, version) == S.heads[version + 1].status = "Halted"
ts_stack_is_paused(S, version) == S.heads[version + 1].status = "Paused"

ts_stack_error_cost(S, version) ==
    LET node == ts_stack_head_node(S, version) IN
    IF \/ ts_stack_is_paused(S, version)
       \/ (node.state = ERROR_STATE /\ IsNull(node.links[1].subtree))
    THEN node.error_cost + ERROR_COST_PER_RECOVERY
    ELSE node.error_cost

\* ts_stack_node_count_since_error lowers the head's node_count_at_last_error
\* to the node's node_count when that is smaller, and returns the difference.
\* The first operator is the stack it leaves, the second the number.
ts_stack_lower_count_at_last_error(S, version) ==
    [S EXCEPT !.heads[version + 1].node_count_at_last_error =
        IF ts_stack_head_node(S, version).node_count < @
        THEN ts_stack_head_node(S, version).node_count ELSE @]

ts_stack_node_count_since_error(S, version) ==
    ts_stack_head_node(S, version).node_count
    - ts_stack_lower_count_at_last_error(S, version).heads[version + 1].node_count_at_last_error

ts_stack_push(S, version, subtree, pending, state) ==
    LET headed(pushed, new_node) ==
            [pushed EXCEPT
               !.heads[version + 1].node = new_node,
               !.heads[version + 1].node_count_at_last_error =
                   IF IsNull(subtree) THEN pushed.nodes[new_node].node_count ELSE @]
        after(pushed) == headed(pushed, Len(pushed.nodes))
    IN after(stack_node_new(S, S.heads[version + 1].node, subtree, pending, state))

ts_stack_remove_version(S, version) ==
    [stack_head_delete(S, version) EXCEPT !.heads = RemoveAt(@, version + 1)]

\* The two debug_assert! of ts_stack_renumber_version.
renumber_asserts(S, v1, v2) == v2 < v1 /\ v1 < Len(S.heads)

\* S.renumber keeps of the calls with v1 # v2 whether there was one (moved)
\* and whether the asserts held in all of them (asserted).  A call whose
\* asserts fail stops there.
ts_stack_renumber_version(S, v1, v2) ==
    IF v1 = v2 THEN S
    ELSE IF ~renumber_asserts(S, v1, v2)
    THEN [S EXCEPT !.renumber = [asserted |-> FALSE, moved |-> TRUE]]
    ELSE LET source_head == S.heads[v1 + 1]
             target_head == S.heads[v2 + 1]
             moved == IF ~IsNull(target_head.summary) /\ IsNull(source_head.summary)
                      THEN [source_head EXCEPT !.summary = target_head.summary]
                      ELSE source_head
         IN [stack_head_delete(S, v2) EXCEPT
                !.heads = RemoveAt([@ EXCEPT ![v2 + 1] = moved], v1 + 1),
                !.renumber = [@ EXCEPT !.moved = TRUE]]

ts_stack_swap_versions_of_nodes(S, v1, v2) ==
    [S EXCEPT !.heads = [@ EXCEPT ![v1 + 1].node = S.heads[v2 + 1].node,
                                  ![v2 + 1].node = S.heads[v1 + 1].node]]

ts_stack_swap_versions(S, v1, v2) ==
    [S EXCEPT !.heads = [@ EXCEPT ![v1 + 1] = S.heads[v2 + 1],
                                  ![v2 + 1] = S.heads[v1 + 1]]]

\* A copy that shares the last external token of the version without
\* retaining it.
ts_stack_copy_version_sharing_token(S, version) ==
    [stack_node_retain(S, S.heads[version + 1].node) EXCEPT
        !.heads = Append(@, [S.heads[version + 1] EXCEPT !.summary = NULL_SUBTREE])]

\* The copy is the last version: the head is copied field by field, its node
\* and its last external token are retained, its summary is dropped.
ts_stack_copy_version(S, version) ==
    [head_subtree_retain(stack_node_retain(S, S.heads[version + 1].node),
                         S.heads[version + 1].last_external_token)
     EXCEPT
        !.heads = Append(@, [S.heads[version + 1] EXCEPT !.summary = NULL_SUBTREE])]

ts_stack_last_external_token(S, version) == S.heads[version + 1].last_external_token

ts_stack_set_last_external_token(S, version, token) ==
    [head_subtree_release(head_subtree_retain(S, token),
                          S.heads[version + 1].last_external_token)
     EXCEPT !.heads[version + 1].last_external_token = token]

ts_stack_can_merge(S, version1, version2) ==
    /\ ts_stack_is_active(S, version1)
    /\ ts_stack_is_active(S, version2)
    /\ ts_stack_state(S, version1) = ts_stack_state(S, version2)
    /\ ts_stack_position(S, version1) = ts_stack_position(S, version2)
    /\ ts_stack_head_node(S, version1).error_cost = ts_stack_head_node(S, version2).error_cost
    /\ ts_subtree_external_scanner_state_eq(S.heads[version1 + 1].last_external_token,
                                            S.heads[version2 + 1].last_external_token)

\* ts_stack_merge returns ts_stack_can_merge; this is the stack it leaves.
merge_linked(linked, version1, version2) ==
    ts_stack_remove_version(
        IF ts_stack_state(linked, version1) = ERROR_STATE
        THEN [linked EXCEPT !.heads[version1 + 1].node_count_at_last_error =
                  ts_stack_head_node(linked, version1).node_count]
        ELSE linked,
        version2)

\* A merge that removes version2 and leaves its links behind.
ts_stack_merge_without_links(S, version1, version2) ==
    IF ~ts_stack_can_merge(S, version1, version2) THEN S
    ELSE merge_linked(S, version1, version2)

ts_stack_merge(S, version1, version2) ==
    IF ~ts_stack_can_merge(S, version1, version2) THEN S
    ELSE merge_linked(add_links_of(S, S.heads[version1 + 1].node,
                                   S.heads[version2 + 1].node, 1),
                      version1, version2)

ts_stack_halt(S, version) == [S EXCEPT !.heads[version + 1].status = "Halted"]

\* A pause that leaves the version active.
ts_stack_pause_left_active(S, version, lookahead) ==
    [head_subtree_retain(S, lookahead) EXCEPT
        !.heads[version + 1].lookahead_when_paused = lookahead]

\* The head takes over the caller's reference on the lookahead.
ts_stack_pause(S, version, lookahead) ==
    [head_subtree_retain(S, lookahead) EXCEPT !.heads[version + 1] =
        [@ EXCEPT !.status = "Paused",
                  !.lookahead_when_paused = lookahead,
                  !.node_count_at_last_error = ts_stack_head_node(S, version).node_count]]

\* ts_stack_resume returns the lookahead stored when the version was paused;
\* this is the stack it leaves.
ts_stack_resume(S, version) ==
    [head_subtree_release(S, S.heads[version + 1].lookahead_when_paused)
     EXCEPT !.heads[version + 1] =
        [@ EXCEPT !.status = "Active", !.lookahead_when_paused = NULL_SUBTREE]]

ts_stack_pop_count(S, version, count) == stack__iter(S, version, "pop_count", count, count)

ts_stack_pop_all(S, version) == stack__iter(S, version, "pop_all", 0, 0)

pop_pending_slice(version, pop) ==
    IF Len(pop.slices) > 0
    THEN [pop EXCEPT !.S = ts_stack_renumber_version(pop.S, pop.slices[1].version, version),
                     !.slices[1].version = version]
    ELSE pop

ts_stack_pop_pending(S, version) ==
    pop_pending_slice(version, stack__iter(S, version, "pop_pending", 0, 0))

\* ts_stack_pop_error: the stack it leaves and the subtrees it returns.
pop_error_slice(S, version, has_error, pop) ==
    IF has_error /\ Len(pop.slices) > 0
    THEN [S |-> ts_stack_renumber_version(pop.S, pop.slices[1].version, version),
          subtrees |-> pop.slices[1].subtrees]
    ELSE [S |-> S, subtrees |-> << >>]

\* A ts_stack_pop_error that renumbers the version to the popped one.
ts_stack_pop_error_renumbering_back(S, version) ==
    LET pop == stack__iter(S, version, "pop_error", FALSE, 1)
        has_error == \E i \in 1..Len(ts_stack_head_node(S, version).links) :
                        /\ ~IsNull(ts_stack_head_node(S, version).links[i].subtree)
                        /\ ts_subtree_is_error(ts_stack_head_node(S, version).links[i].subtree)
    IN IF has_error /\ Len(pop.slices) > 0
       THEN [S |-> ts_stack_renumber_version(pop.S, version, pop.slices[1].version),
             subtrees |-> pop.slices[1].subtrees]
       ELSE [S |-> S, subtrees |-> << >>]

ts_stack_pop_error(S, version) ==
    pop_error_slice(S, version,
                    \E i \in 1..Len(ts_stack_head_node(S, version).links) :
                       /\ ~IsNull(ts_stack_head_node(S, version).links[i].subtree)
                       /\ ts_subtree_is_error(ts_stack_head_node(S, version).links[i].subtree),
                    stack__iter(S, version, "pop_error", FALSE, 1))

ts_stack_record_summary(S, version, max_depth) ==
    LET session == stack__iter(S, version, "summarize_stack",
                               [summary |-> << >>, max_depth |-> max_depth], 0 - 1).payload
    IN [S EXCEPT !.heads[version + 1].summary = [entries |-> session.summary]]

(***************************************************************************)
(* The parser's steps.  P is the TSParser: its stack, finished_tree,       *)
(* accept_count, operation_count, canceled_balancing, has_error, the       *)
(* token_cache, the old_tree, the lexer's input and the tree pool's        *)
(* tree_stack (the work stack of balancing: the places, in the finished    *)
(* tree, of the nodes still to balance).                                   *)
(***************************************************************************)
RECURSIVE ts_subtree_compare(_, _)
RECURSIVE compare_children(_, _, _)

\* The pairs of children are taken off the pool's tree_stack first child
\* first, each pair before the pairs behind it.
compare_children(left, right, i) ==
    IF i > ts_subtree_child_count(left) THEN 0
    ELSE LET result == ts_subtree_compare(left.children[i], right.children[i])
         IN IF result # 0 THEN result ELSE compare_children(left, right, i + 1)

\* A mutant of ts_subtree_compare: the pairs of children are taken last
\* child first.
RECURSIVE compare_children_from_the_right(_, _, _)
compare_children_from_the_right(left, right, i) ==
    IF i = 0 THEN 0
    ELSE LET result == ts_subtree_compare(left.children[i], right.children[i])
         IN IF result # 0 THEN result
            ELSE compare_children_from_the_right(left, right, i - 1)

ts_subtree_compare_from_the_right(left, right) ==
    IF ts_subtree_symbol(left) < ts_subtree_symbol(right) THEN 0 - 1
    ELSE IF ts_subtree_symbol(right) < ts_subtree_symbol(left) THEN 1
    ELSE IF ts_subtree_child_count(left) < ts_subtree_child_count(right) THEN 0 - 1
    ELSE IF ts_subtree_child_count(right) < ts_subtree_child_count(left) THEN 1
    ELSE compare_children_from_the_right(left, right, ts_subtree_child_count(left))

ts_subtree_compare(left, right) ==
    IF ts_subtree_symbol(left) < ts_subtree_symbol(right) THEN 0 - 1
    ELSE IF ts_subtree_symbol(right) < ts_subtree_symbol(left) THEN 1
    ELSE IF ts_subtree_child_count(left) < ts_subtree_child_count(right) THEN 0 - 1
    ELSE IF ts_subtree_child_count(right) < ts_subtree_child_count(left) THEN 1
    ELSE compare_children(left, right, 1)

\* TRUE when the right tree is to replace the left one.
\* A mutant of ts_parser__select_tree: the two comparisons of the error
\* costs are the wrong way round.
select_tree_costlier(left, right) ==
    IF IsNull(left) THEN TRUE
    ELSE IF IsNull(right) THEN FALSE
    ELSE IF ts_subtree_error_cost(right) > ts_subtree_error_cost(left) THEN TRUE
    ELSE IF ts_subtree_error_cost(left) > ts_subtree_error_cost(right) THEN FALSE
    ELSE IF ts_subtree_dynamic_precedence(right) > ts_subtree_dynamic_precedence(left) THEN TRUE
    ELSE IF ts_subtree_dynamic_precedence(left) > ts_subtree_dynamic_precedence(right) THEN FALSE
    ELSE IF ts_subtree_error_cost(left) > 0 THEN TRUE
    ELSE ts_subtree_compare(left, right) = 1

ts_parser__select_tree(left, right) ==
    IF IsNull(left) THEN TRUE
    ELSE IF IsNull(right) THEN FALSE
    ELSE IF ts_subtree_error_cost(right) < ts_subtree_error_cost(left) THEN TRUE
    ELSE IF ts_subtree_error_cost(left) < ts_subtree_error_cost(right) THEN FALSE
    ELSE IF ts_subtree_dynamic_precedence(right) > ts_subtree_dynamic_precedence(left) THEN TRUE
    ELSE IF ts_subtree_dynamic_precedence(left) > ts_subtree_dynamic_precedence(right) THEN FALSE
    ELSE IF ts_subtree_error_cost(left) > 0 THEN TRUE
    ELSE ts_subtree_compare(left, right) = 1

ts_parser__select_children(left, children) ==
    ts_parser__select_tree(left, ts_subtree_new_node(ts_subtree_symbol(left), children, 0))

\* The array without its trailing extras, and those extras in their order.
ts_subtree_array_remove_trailing_extras(subtrees) ==
    LET kept == {k \in 0..Len(subtrees) :
                    \A j \in (k + 1)..Len(subtrees) : ts_subtree_extra(subtrees[j])}
        size == CHOOSE k \in kept : \A other \in kept : k <= other
    IN [children |-> SubSeq(subtrees, 1, size),
        extras |-> SubSeq(subtrees, size + 1, Len(subtrees))]

ts_parser__shift(P, version, state, lookahead, extra) ==
    LET is_leaf == ts_subtree_child_count(lookahead) = 0
        subtree_to_push == IF extra # ts_subtree_extra(lookahead) /\ is_leaf
                           THEN [lookahead EXCEPT !.extra = extra]
                           ELSE lookahead
        pushed == ts_stack_push(P.stack, version, subtree_to_push, ~is_leaf, state)
    IN [P EXCEPT !.stack =
            IF ts_subtree_has_external_tokens(subtree_to_push)
            THEN ts_stack_set_last_external_token(
                     pushed, version, ts_subtree_last_external_token(subtree_to_push))
            ELSE pushed]

RECURSIVE push_all(_, _, _, _, _)
\* ts_stack_push for each of the trees, the i-th first.
push_all(S, version, trees, i, state) ==
    IF i > Len(trees) THEN S
    ELSE push_all(ts_stack_push(S, version, trees[i], FALSE, state),
                  version, trees, i + 1, state)

RECURSIVE reduce_select(_, _, _, _)
RECURSIVE reduce_select_next(_, _, _, _, _)
\* The loop of ts_parser__reduce over the slices that follow slice i with its
\* version: the parent and trailing extras chosen among them, and the last
\* slice looked at.
reduce_select_next(slices, i, symbol, chosen, next) ==
    reduce_select(
      slices, i + 1, symbol,
      IF ts_parser__select_children(chosen.parent, next.children)
      THEN [parent |-> ts_subtree_new_node(symbol, next.children,
                                           chosen.parent.production_id),
            extras |-> next.extras, last |-> i + 1]
      ELSE [chosen EXCEPT !.last = i + 1])

reduce_select(slices, i, symbol, chosen) ==
    IF i + 1 > Len(slices) \/ slices[i + 1].version # slices[i].version THEN chosen
    ELSE reduce_select_next(slices, i, symbol, chosen,
             ts_subtree_array_remove_trailing_extras(slices[i + 1].subtrees))

RECURSIVE reduce_slices(_, _, _, _, _)
RECURSIVE reduce_merge(_, _, _, _, _, _)
RECURSIVE reduce_push(_, _, _, _, _, _, _)
\* The loop of ts_parser__reduce over the slices, from the i-th; r is the
\* call (its arguments, initial_version_count, halted_version_count).
reduce_first(r, first, i) ==
    [parent |-> ts_subtree_new_node(r.symbol, first.children, r.production_id),
     extras |-> first.extras, last |-> i]

\* The slice's version is merged into the first version it can merge with.
reduce_merge(pushed, slices, slice_version, removed_version_count, r, chosen) ==
    LET mergeable == {j \in 0..(slice_version - 1) :
                         j # r.version /\ ts_stack_can_merge(pushed, j, slice_version)}
        target == CHOOSE j \in mergeable : \A other \in mergeable : j <= other
    IN IF mergeable # {}
       THEN reduce_slices(ts_stack_merge(pushed, target, slice_version), slices,
                          chosen.last + 1, removed_version_count + 1, r)
       ELSE reduce_slices(pushed, slices, chosen.last + 1, removed_version_count, r)

\* The parent chosen for the slice is marked and pushed, and the trailing
\* extras after it.
reduce_push_by_call_or_slices(S, slices, slice_version, removed_version_count, r, chosen, next_state) ==
    LET state == ts_stack_state(S, slice_version)
        extra == IF r.end_of_non_terminal_extra /\ next_state = state
                 THEN [chosen.parent EXCEPT !.extra = TRUE] ELSE chosen.parent
        marked == IF r.is_fragile \/ Len(slices) > 1
                  THEN [extra EXCEPT !.fragile_left = TRUE, !.fragile_right = TRUE,
                                     !.parse_state = TS_TREE_STATE_NONE]
                  ELSE [extra EXCEPT !.parse_state = state]
        parent == [marked EXCEPT !.dynamic_precedence = @ + r.dynamic_precedence]
    IN reduce_merge(push_all(ts_stack_push(S, slice_version, parent, FALSE, next_state),
                             slice_version, chosen.extras, 1, next_state),
                    slices, slice_version, removed_version_count,
                    [r EXCEPT !.parents = Append(@, [parent |-> parent, state |-> state])],
                    chosen)

reduce_push(S, slices, slice_version, removed_version_count, r, chosen, next_state) ==
    LET state == ts_stack_state(S, slice_version)
        extra == IF r.end_of_non_terminal_extra /\ next_state = state
                 THEN [chosen.parent EXCEPT !.extra = TRUE] ELSE chosen.parent
        marked == IF r.is_fragile \/ Len(slices) > 1 \/ r.initial_version_count > 1
                  THEN [extra EXCEPT !.fragile_left = TRUE, !.fragile_right = TRUE,
                                     !.parse_state = TS_TREE_STATE_NONE]
                  ELSE [extra EXCEPT !.parse_state = state]
        parent == [marked EXCEPT !.dynamic_precedence = @ + r.dynamic_precedence]
    IN reduce_merge(push_all(ts_stack_push(S, slice_version, parent, FALSE, next_state),
                             slice_version, chosen.extras, 1, next_state),
                    slices, slice_version, removed_version_count,
                    [r EXCEPT !.parents = Append(@, [parent |-> parent, state |-> state])],
                    chosen)

reduce_slices(S, slices, i, removed_version_count, r) ==
    IF i > Len(slices) THEN [S |-> S, parents |-> r.parents]
    ELSE
    LET slice == slices[i]
        slice_version == slice.version - removed_version_count
        same == {k \in i..Len(slices) : \A j \in i..k : slices[j].version = slice.version}
        last_same == CHOOSE k \in same : \A other \in same : other <= k
    IN IF slice_version > MAX_VERSION_COUNT + MAX_VERSION_COUNT_OVERFLOW
                          + r.halted_version_count
       THEN reduce_slices(ts_stack_remove_version(S, slice_version), slices,
                          last_same + 1, removed_version_count + 1, r)
       ELSE reduce_push(S, slices, slice_version, removed_version_count, r,
                reduce_select(slices, i, r.symbol,
                    reduce_first(r, ts_subtree_array_remove_trailing_extras(slice.subtrees),
                                 i)),
                ts_language_next_state(ts_stack_state(S, slice_version), r.symbol))

\* ts_parser__reduce: the parser it leaves and the version it returns.  The
\* parser's reduce_log takes what the call was given, what it built and the
\* versions it left.
reduce_result(P, r, slice_count, reduced) ==
    [P |-> [P EXCEPT !.stack = reduced.S,
                     !.reduce_log =
                         Append(@, [version |-> r.version, symbol |-> r.symbol,
                                    is_fragile |-> r.is_fragile,
                                    initial_version_count |-> r.initial_version_count,
                                    slice_count |-> slice_count,
                                    parents |-> reduced.parents,
                                    version_count |-> ts_stack_version_count(reduced.S),
                                    halted_version_count |->
                                        ts_stack_halted_version_count(reduced.S)])],
     version |-> IF ts_stack_version_count(reduced.S) > r.initial_version_count
                 THEN r.initial_version_count ELSE STACK_VERSION_NONE]

reduce_popped(P, r, pop) ==
    reduce_result(P, r, Len(pop.slices),
        reduce_slices(pop.S, pop.slices, 1, 0,
            [r EXCEPT !.halted_version_count = ts_stack_halted_version_count(pop.S)]))

ts_parser__reduce(P, version, symbol, count, dynamic_precedence, production_id, is_fragile, end_of_non_terminal_extra) ==
    reduce_popped(P,
        [version |-> version, symbol |-> symbol,
         dynamic_precedence |-> dynamic_precedence,
         production_id |-> production_id, is_fragile |-> is_fragile,
         end_of_non_terminal_extra |-> end_of_non_terminal_extra,
         initial_version_count |-> ts_stack_version_count(P.stack),
         halted_version_count |-> 0,
         parents |-> << >>],
        ts_stack_pop_count(P.stack, version, count))

RECURSIVE accept_slices(_, _, _)
RECURSIVE accept_select(_, _, _, _)
\* The loop of ts_parser__accept over the popped slices, from the i-th.
accept_root(trees, roots) ==
    LET j == CHOOSE k \in roots : \A other \in roots : other <= k
    IN IF roots = {} THEN NULL_SUBTREE
       ELSE ts_subtree_new_node(
               ts_subtree_symbol(trees[j]),
               SubSeq(trees, 1, j - 1) \o trees[j].children
                   \o SubSeq(trees, j + 1, Len(trees)),
               trees[j].production_id)

accept_select(P, slices, i, root) ==
    accept_slices([P EXCEPT !.accept_count = @ + 1,
                            !.finished_tree =
                                IF IsNull(P.finished_tree)
                                   \/ ts_parser__select_tree(P.finished_tree, root)
                                THEN root ELSE @],
                  slices, i + 1)

accept_slices(P, slices, i) ==
    IF i > Len(slices) THEN P
    ELSE accept_select(P, slices, i,
             accept_root(slices[i].subtrees,
                         {j \in 1..Len(slices[i].subtrees) :
                             ~ts_subtree_extra(slices[i].subtrees[j])}))

accept_popped(P, version, pop) ==
    [accept_slices([P EXCEPT !.stack = pop.S], pop.slices, 1) EXCEPT !.stack =
        ts_stack_halt(ts_stack_remove_version(@, pop.slices[1].version), version)]

ts_parser__accept(P, version, lookahead) ==
    accept_popped(P, version,
        ts_stack_pop_all(ts_stack_push(P.stack, version, lookahead, FALSE, 1), version))

\* An ErrorStatus is a record [cost, node_count, dynamic_precedence, is_in_error].
\* The u32 product of the source, x * y modulo 2^32, as its two halves of
\* 16 bits.  x and y are below 2^31; s is below 2^16 and no intermediate
\* value reaches 2^31.
u16_low_product(s, w) ==
    ((s % 256) * (w % 65536) + 256 * (((s \div 256) * (w % 65536)) % 256)) % 65536

u16_high_product(s, w) ==
    s * (w \div 65536)
    + ((s % 256) * (w % 65536) + 256 * (((s \div 256) * (w % 65536)) % 256)) \div 65536
    + ((s \div 256) * (w % 65536)) \div 256

u32_wrapping_mul(x, y) ==
    [high |-> ((u16_high_product(x % 65536, y) % 65536)
               + u16_low_product(y % 65536, x \div 65536)) % 65536,
     low |-> u16_low_product(x % 65536, y)]

\* Does the product of x and y not fit in 32 bits?  A build with overflow
\* checks panics there.
u32_mul_overflows(x, y) ==
    IF x >= 65536 /\ y >= 65536 THEN TRUE
    ELSE IF x >= 65536 THEN u16_high_product(y, x) >= 65536
    ELSE u16_high_product(x, y) >= 65536

\* product > limit, for a limit below 2^16.
u32_exceeds(product, limit) == product.high > 0 \/ product.low > limit

ts_parser__compare_versions(a, b) ==
    IF ~a.is_in_error /\ b.is_in_error
    THEN (IF a.cost < b.cost THEN "TakeLeft" ELSE "PreferLeft")
    ELSE IF a.is_in_error /\ ~b.is_in_error
    THEN (IF b.cost < a.cost THEN "TakeRight" ELSE "PreferRight")
    ELSE IF a.cost < b.cost
    THEN (IF u32_exceeds(u32_wrapping_mul(b.cost - a.cost, 1 + a.node_count),
                         MAX_COST_DIFFERENCE)
          THEN "TakeLeft" ELSE "PreferLeft")
    ELSE IF b.cost < a.cost
    THEN (IF u32_exceeds(u32_wrapping_mul(a.cost - b.cost, 1 + b.node_count),
                         MAX_COST_DIFFERENCE)
          THEN "TakeRight" ELSE "PreferRight")
    ELSE IF a.dynamic_precedence > b.dynamic_precedence THEN "PreferLeft"
    ELSE IF b.dynamic_precedence > a.dynamic_precedence THEN "PreferRight"
    ELSE "None"

\* The status of a version.  Reading it calls ts_stack_node_count_since_error,
\* so the stack after it is ts_stack_lower_count_at_last_error of the version.
ts_parser__version_status(S, version) ==
    LET is_paused == ts_stack_is_paused(S, version) IN
    [cost |-> ts_stack_error_cost(S, version)
              + (IF is_paused THEN ERROR_COST_PER_SKIPPED_TREE ELSE 0),
     node_count |-> ts_stack_node_count_since_error(S, version),
     dynamic_precedence |-> ts_stack_dynamic_precedence(S, version),
     is_in_error |-> is_paused \/ ts_stack_state(S, version) = ERROR_STATE]

RECURSIVE better_version_loop(_, _, _, _)
RECURSIVE better_version_compare(_, _, _, _, _)
better_version_compare(read, version, status, i, comparison) ==
    IF comparison = "TakeRight" THEN [S |-> read, result |-> TRUE]
    ELSE IF comparison = "PreferRight" /\ ts_stack_can_merge(read, i, version)
    THEN [S |-> read, result |-> TRUE]
    ELSE better_version_loop(read, version, status, i + 1)

better_version_loop(S, version, status, i) ==
    IF i >= ts_stack_version_count(S) THEN [S |-> S, result |-> FALSE]
    ELSE IF \/ i = version
            \/ ~ts_stack_is_active(S, i)
            \/ ts_stack_position(S, i) < ts_stack_position(S, version)
    THEN better_version_loop(S, version, status, i + 1)
    ELSE better_version_compare(
             ts_stack_lower_count_at_last_error(S, i), version, status, i,
             ts_parser__compare_versions(status, ts_parser__version_status(S, i)))

\* A search that finds a better version whatever the versions are.
better_version_always(P, version, is_in_error, cost) == [P |-> P, result |-> TRUE]

\* ts_parser__better_version_exists: the parser it leaves and its result.
better_version_found(P, found) ==
    [P |-> [P EXCEPT !.stack = found.S], result |-> found.result]

ts_parser__better_version_exists(P, version, is_in_error, cost) ==
    IF ~IsNull(P.finished_tree) /\ ts_subtree_error_cost(P.finished_tree) <= cost
    THEN [P |-> P, result |-> TRUE]
    ELSE better_version_found(P,
             better_version_loop(
                 ts_stack_lower_count_at_last_error(P.stack, version), version,
                 [cost |-> cost, is_in_error |-> is_in_error,
                  dynamic_precedence |-> ts_stack_dynamic_precedence(P.stack, version),
                  node_count |-> ts_stack_node_count_since_error(P.stack, version)],
                 0))

\* ts_reduce_action_set_add over the entries of a state for the symbols
\* first_symbol..end_symbol - 1: the reductions of at least one child, each
\* (symbol, count) once, in the order met.
RECURSIVE reduce_actions_of(_, _, _, _)
reduce_actions_new(set, actions) ==
    SelectSeq(actions,
        LAMBDA action :
            /\ action.type_ = "Reduce"
            /\ action.child_count > 0
            /\ \A k \in 1..Len(set) :
                  ~(set[k].symbol = action.symbol /\ set[k].count = action.child_count))

reduce_actions_add(set, news) ==
    set \o [k \in 1..Len(news) |->
               [symbol |-> news[k].symbol, count |-> news[k].child_count,
                dynamic_precedence |-> news[k].dynamic_precedence,
                production_id |-> news[k].production_id]]

reduce_actions_of(state, symbol, end_symbol, set) ==
    IF symbol >= end_symbol THEN set
    ELSE reduce_actions_of(state, symbol + 1, end_symbol,
             reduce_actions_add(set,
                 reduce_actions_new(set, ts_language_table_entry(state, symbol).actions)))

RECURSIVE reduce_each(_, _, _, _, _)
RECURSIVE reduce_each_next(_, _, _, _)
reduce_each_next(reduced, version, actions, j) ==
    reduce_each(reduced.P, version, actions, j + 1, reduced.version)

reduce_each(P, version, actions, j, reduction_version) ==
    IF j > Len(actions) THEN [P |-> P, version |-> reduction_version]
    ELSE reduce_each_next(
             ts_parser__reduce(P, version, actions[j].symbol, actions[j].count,
                               actions[j].dynamic_precedence,
                               actions[j].production_id, TRUE, FALSE),
             version, actions, j)

RECURSIVE potential_reductions_loop(_, _, _, _, _)
RECURSIVE potential_reduced(_, _, _, _, _, _, _)
\* The loop of ts_parser__do_all_potential_reductions; d is the call (its
\* arguments and initial_version_count).
shift_action_in(entry) ==
    \E j \in 1..entry.action_count :
        /\ entry.actions[j].type_ \in {"Shift", "Recover"}
        /\ ~entry.actions[j].extra
        /\ ~entry.actions[j].repetition

\* The version has been taken through its reductions.
potential_reduced(version, i, can_shift_lookahead_symbol, d, next_version,
                  has_shift_action, reduced) ==
    IF has_shift_action
    THEN potential_reductions_loop(reduced.P, next_version, i + 1, TRUE, d)
    ELSE IF reduced.version # STACK_VERSION_NONE /\ i < MAX_VERSION_COUNT
    THEN potential_reductions_loop(
            [reduced.P EXCEPT !.stack = ts_stack_renumber_version(@, reduced.version, version)],
            version, i + 1, can_shift_lookahead_symbol, d)
    ELSE IF d.lookahead_symbol # 0
    THEN potential_reductions_loop(
            [reduced.P EXCEPT !.stack = ts_stack_remove_version(@, version)],
            next_version, i + 1, can_shift_lookahead_symbol, d)
    ELSE potential_reductions_loop(reduced.P, next_version, i + 1,
                                   can_shift_lookahead_symbol, d)

potential_reductions_loop(P, version, i, can_shift_lookahead_symbol, d) ==
    LET S == P.stack
        version_count == ts_stack_version_count(S)
    IN
    IF version >= version_count
    THEN [P |-> P, result |-> can_shift_lookahead_symbol]
    ELSE
    LET mergeable == {j \in d.initial_version_count..(version - 1) :
                         ts_stack_can_merge(S, j, version)}
        target == CHOOSE j \in mergeable : \A other \in mergeable : j <= other
    IN
    IF mergeable # {}
    THEN potential_reductions_loop([P EXCEPT !.stack = ts_stack_merge(S, target, version)],
                                   version, i + 1, can_shift_lookahead_symbol, d)
    ELSE
    LET state == ts_stack_state(S, version)
        first_symbol == IF d.lookahead_symbol # 0 THEN d.lookahead_symbol ELSE 1
        end_symbol == IF d.lookahead_symbol # 0 THEN d.lookahead_symbol + 1 ELSE token_count
    IN potential_reduced(
           version, i, can_shift_lookahead_symbol, d,
           IF version = d.starting_version THEN version_count ELSE version + 1,
           \E symbol \in first_symbol..(end_symbol - 1) :
               shift_action_in(ts_language_table_entry(state, symbol)),
           reduce_each(P, version,
                       reduce_actions_of(state, first_symbol, end_symbol, << >>),
                       1, STACK_VERSION_NONE))

\* ts_parser__do_all_potential_reductions: the parser it leaves and its result.
ts_parser__do_all_potential_reductions(P, starting_version, lookahead_symbol) ==
    potential_reductions_loop(P, starting_version, 0, FALSE,
        [starting_version |-> starting_version, lookahead_symbol |-> lookahead_symbol,
         initial_version_count |-> ts_stack_version_count(P.stack)])

RECURSIVE recover_to_state_loop(_, _, _, _, _)
RECURSIVE recover_popped_error(_, _, _, _)
\* The loop of ts_parser__recover_to_state over the popped slices.
\* An ERROR node over the trees popped (if any is left without the trailing
\* extras), and the trailing extras, are pushed in the goal state.
recover_push_error(S, version, split, goal_state) ==
    push_all(IF Len(split.children) > 0
             THEN ts_stack_push(S, version,
                                ts_subtree_new_error_node(split.children, TRUE),
                                FALSE, goal_state)
             ELSE S,
             version, split.extras, 1, goal_state)

recover_popped_error(slices, i, goal_state, error_trees) ==
    recover_to_state_loop(
        recover_push_error(
            error_trees.S, slices[i].version,
            ts_subtree_array_remove_trailing_extras(
                IF Len(error_trees.subtrees) > 0
                THEN error_trees.subtrees[1].children \o slices[i].subtrees
                ELSE slices[i].subtrees),
            goal_state),
        slices, i + 1, slices[i].version, goal_state)

recover_to_state_loop(S, slices, i, previous_version, goal_state) ==
    IF i > Len(slices) THEN [S |-> S, result |-> previous_version # STACK_VERSION_NONE]
    ELSE
    LET slice == slices[i] IN
    IF slice.version = previous_version
    THEN recover_to_state_loop(S, slices, i + 1, previous_version, goal_state)
    ELSE IF ts_stack_state(S, slice.version) # goal_state
    THEN recover_to_state_loop(ts_stack_halt(S, slice.version), slices, i + 1,
                               previous_version, goal_state)
    ELSE recover_popped_error(slices, i, goal_state, ts_stack_pop_error(S, slice.version))

\* ts_parser__recover_to_state: the stack it leaves and its result.
recover_to_state_popped(pop, goal_state) ==
    recover_to_state_loop(pop.S, pop.slices, 1, STACK_VERSION_NONE, goal_state)

ts_parser__recover_to_state(S, version, depth, goal_state) ==
    recover_to_state_popped(ts_stack_pop_count(S, version, depth), goal_state)

RECURSIVE recover_previous_state(_, _, _)
RECURSIVE recover_try_state(_, _, _, _)
RECURSIVE recover_if_not_better(_, _, _, _, _)
\* Strategy 1 of ts_parser__recover, from the i-th entry of the summary: the
\* parser it leaves and did_recover.  r holds the locals of the call.
recover_try_state(P, i, r, recovered) ==
    IF recovered.result
    THEN [P |-> [P EXCEPT !.stack = recovered.S], did_recover |-> TRUE]
    ELSE recover_previous_state([P EXCEPT !.stack = recovered.S], i + 1, r)

recover_if_not_better(i, r, entry, depth, better) ==
    IF better.result THEN [P |-> better.P, did_recover |-> FALSE]
    ELSE IF ts_language_has_actions(entry.state, ts_subtree_symbol(r.lookahead))
    THEN recover_try_state(better.P, i, r,
             ts_parser__recover_to_state(better.P.stack, r.version, depth, entry.state))
    ELSE recover_previous_state(better.P, i + 1, r)

recover_previous_state(P, i, r) ==
    IF i > Len(r.summary.entries) THEN [P |-> P, did_recover |-> FALSE]
    ELSE
    LET entry == r.summary.entries[i]
        depth == entry.depth + (IF r.node_count_since_error > 0 THEN 1 ELSE 0)
        would_merge == \E j \in 0..(r.previous_version_count - 1) :
                          /\ ts_stack_state(P.stack, j) = entry.state
                          /\ ts_stack_position(P.stack, j) = r.position
        new_cost == r.current_error_cost
                    + entry.depth * ERROR_COST_PER_SKIPPED_TREE
                    + (r.position - entry.position) * ERROR_COST_PER_SKIPPED_CHAR
    IN
    IF entry.state = ERROR_STATE \/ entry.position = r.position \/ would_merge
    THEN recover_previous_state(P, i + 1, r)
    ELSE recover_if_not_better(i, r, entry, depth,
             ts_parser__better_version_exists(P, r.version, FALSE, new_cost))

RECURSIVE remove_inactive_versions(_, _)
remove_inactive_versions(S, i) ==
    IF i >= ts_stack_version_count(S) THEN S
    ELSE IF ~ts_stack_is_active(S, i)
    THEN remove_inactive_versions(ts_stack_remove_version(S, i), i)
    ELSE remove_inactive_versions(S, i + 1)

RECURSIVE remove_versions_after(_, _)
remove_versions_after(S, version) ==
    IF ts_stack_version_count(S) > version + 1
    THEN remove_versions_after(ts_stack_remove_version(S, version + 1), version)
    ELSE S

RECURSIVE recover_has_error(_, _)
\* The last loop of ts_parser__recover: the stack after the statuses read,
\* and has_error.
recover_has_error(S, vi) ==
    IF vi >= ts_stack_version_count(S) THEN [S |-> S, has_error |-> TRUE]
    ELSE IF ~ts_parser__version_status(S, vi).is_in_error
    THEN [S |-> ts_stack_lower_count_at_last_error(S, vi), has_error |-> FALSE]
    ELSE recover_has_error(ts_stack_lower_count_at_last_error(S, vi), vi + 1)

\* Strategy 2 of ts_parser__recover: the token is skipped.
skip_token_extra(token, entry) ==
    IF /\ entry.action_count > 0
       /\ entry.actions[entry.action_count].type_ = "Shift"
       /\ entry.actions[entry.action_count].extra
    THEN [token EXCEPT !.extra = TRUE] ELSE token

skip_token_status(P, status) ==
    [P EXCEPT !.stack = status.S, !.has_error = status.has_error]

skip_token_push(P, version, merged) ==
    skip_token_status(P,
        recover_has_error(
            ts_stack_push(merged.S, version, merged.tree, FALSE, ERROR_STATE), 0))

\* With nodes since the last error, the token joins the error_repeat node
\* popped from the top of the version.
skip_token_merge(P, version, node_count_since_error, error_repeat, pop) ==
    skip_token_push(P, version,
        IF node_count_since_error > 0
        THEN [S |-> ts_stack_renumber_version(
                        IF Len(pop.slices) > 1
                        THEN remove_versions_after(pop.S, pop.slices[1].version)
                        ELSE pop.S,
                        pop.slices[1].version, version),
              tree |-> ts_subtree_new_node(
                          ts_builtin_sym_error_repeat,
                          Append(pop.slices[1].subtrees, error_repeat), 0)]
        ELSE [S |-> P.stack, tree |-> error_repeat])

recover_skip_token(P, version, token, node_count_since_error) ==
    skip_token_merge(P, version, node_count_since_error,
        ts_subtree_new_node(
            ts_builtin_sym_error_repeat,
            <<skip_token_extra(token,
                               ts_language_table_entry(1, ts_subtree_symbol(token)))>>,
            0),
        ts_stack_pop_count(P.stack, version, 1))

recover_unless_better(version, lookahead, r, better) ==
    IF better.result
    THEN [better.P EXCEPT !.stack = ts_stack_halt(@, version)]
    ELSE recover_skip_token(better.P, version, lookahead, r.node_count_since_error)

recover_strategy2(version, lookahead, r, did_recover, P2) ==
    IF ts_subtree_is_eof(lookahead)
    THEN ts_parser__accept(
            [P2 EXCEPT !.stack = ts_stack_push(@, version,
                                    ts_subtree_new_error_node(<< >>, FALSE), FALSE, 1)],
            version, lookahead)
    ELSE IF did_recover /\ ts_stack_version_count(P2.stack) > MAX_VERSION_COUNT
    THEN [P2 EXCEPT !.stack = ts_stack_halt(@, version)]
    ELSE recover_unless_better(version, lookahead, r,
             ts_parser__better_version_exists(
                 P2, version, FALSE,
                 r.current_error_cost + ERROR_COST_PER_SKIPPED_TREE
                 + ts_subtree_total_bytes(lookahead) * ERROR_COST_PER_SKIPPED_CHAR))

recover_strategy1(version, lookahead, r, strategy1) ==
    recover_strategy2(version, lookahead, r, strategy1.did_recover,
        [strategy1.P EXCEPT
            !.stack = remove_inactive_versions(@, r.previous_version_count)])

recover_with(P1, version, lookahead, r) ==
    recover_strategy1(version, lookahead, r,
        IF ~IsNull(r.summary) /\ ~ts_subtree_is_error(lookahead)
        THEN recover_previous_state(P1, 1, r)
        ELSE [P |-> P1, did_recover |-> FALSE])

ts_parser__recover(P, version, lookahead) ==
    recover_with(
        [P EXCEPT !.stack = ts_stack_lower_count_at_last_error(P.stack, version)],
        version, lookahead,
        [version |-> version, lookahead |-> lookahead,
         previous_version_count |-> ts_stack_version_count(P.stack),
         position |-> ts_stack_position(P.stack, version),
         summary |-> ts_stack_get_summary(P.stack, version),
         node_count_since_error |-> ts_stack_node_count_since_error(P.stack, version),
         current_error_cost |-> ts_stack_error_cost(P.stack, version)])

RECURSIVE insert_missing_token(_, _, _, _)
RECURSIVE missing_token_reduced(_, _, _, _)
RECURSIVE missing_token_push(_, _, _, _, _)
RECURSIVE missing_token_state(_, _, _, _, _, _)
\* The loop of ts_parser__handle_error over the symbols that may be missing
\* before the lookahead, at version v: the parser it leaves and
\* did_insert_missing_token.  The lexer, reset to the version's position,
\* marks its end there, so the missing token has no padding.
missing_token_reduced(v, missing_symbol, lookahead, reduced) ==
    IF reduced.result
    THEN [P |-> reduced.P, did_insert_missing_token |-> TRUE]
    ELSE insert_missing_token(reduced.P, v, missing_symbol + 1, lookahead)

\* A copy of version v gets the missing token, and is reduced as far as the
\* lookahead allows.
missing_token_push(P, v, missing_symbol, lookahead, state_after_missing_symbol) ==
    missing_token_reduced(v, missing_symbol, lookahead,
        ts_parser__do_all_potential_reductions(
            [P EXCEPT !.stack =
                ts_stack_push(ts_stack_copy_version(P.stack, v),
                              ts_stack_version_count(P.stack),
                              ts_subtree_new_missing_leaf(
                                  missing_symbol, length_zero,
                                  ts_subtree_total_bytes(lookahead)
                                      + ts_subtree_lookahead_bytes(lookahead)),
                              FALSE, state_after_missing_symbol)],
            ts_stack_version_count(P.stack),
            ts_subtree_leaf_symbol(lookahead)))

missing_token_state(P, v, missing_symbol, lookahead, state, state_after_missing_symbol) ==
    IF state_after_missing_symbol = 0 \/ state_after_missing_symbol = state
    THEN insert_missing_token(P, v, missing_symbol + 1, lookahead)
    ELSE IF ts_language_has_reduce_action(state_after_missing_symbol,
                                          ts_subtree_leaf_symbol(lookahead))
    THEN missing_token_push(P, v, missing_symbol, lookahead, state_after_missing_symbol)
    ELSE insert_missing_token(P, v, missing_symbol + 1, lookahead)

insert_missing_token(P, v, missing_symbol, lookahead) ==
    IF missing_symbol >= token_count THEN [P |-> P, did_insert_missing_token |-> FALSE]
    ELSE missing_token_state(P, v, missing_symbol, lookahead,
             ts_stack_state(P.stack, v),
             ts_language_next_state(ts_stack_state(P.stack, v), missing_symbol))

RECURSIVE push_discontinuity(_, _, _, _)
RECURSIVE push_discontinuity_after(_, _, _)
\* The loop of ts_parser__handle_error over the versions; h holds the locals
\* of the call.
push_discontinuity_after(missing, v, h) ==
    push_discontinuity(
       [missing.P EXCEPT !.stack = ts_stack_push(@, v, NULL_SUBTREE, FALSE, ERROR_STATE)],
       IF v = h.version THEN h.previous_version_count ELSE v + 1,
       missing.did_insert_missing_token, h)

push_discontinuity(P, v, did_insert_missing_token, h) ==
    IF v >= h.version_count THEN P
    ELSE push_discontinuity_after(
             IF ~did_insert_missing_token
             THEN insert_missing_token(P, v, 1, h.lookahead)
             ELSE [P |-> P, did_insert_missing_token |-> TRUE],
             v, h)

(***************************************************************************)
(* The reusable node (parser.rs, from reusable_node.h): the place in the   *)
(* old tree from which ts_parser__reuse_node takes subtrees.  It is a      *)
(* stack of entries [tree, child_index, byte_offset]; no subtree has an    *)
(* external token, so last_external_token stays null.                      *)
(***************************************************************************)
reusable_node_new == [stack |-> << >>, last_external_token |-> NULL_SUBTREE]
reusable_node_clear(self_) == [stack |-> << >>, last_external_token |-> NULL_SUBTREE]

reusable_node_tree(self_) ==
    IF Len(self_.stack) > 0 THEN self_.stack[Len(self_.stack)].tree ELSE NULL_SUBTREE

reusable_node_byte_offset(self_) ==
    IF Len(self_.stack) > 0 THEN self_.stack[Len(self_.stack)].byte_offset ELSE u32_MAX

\* The loop of reusable_node_advance over the stack of the reusable node:
\* entries are popped until one has a child after the one popped.
RECURSIVE reusable_node_popped(_, _)
reusable_node_popped(stack, byte_offset) ==
    LET next_index == stack[Len(stack)].child_index + 1
        popped == SubSeq(stack, 1, Len(stack) - 1)
    IN IF Len(popped) = 0 THEN popped
       ELSE IF ts_subtree_child_count(popped[Len(popped)].tree) > next_index
       THEN Append(popped, [tree |-> popped[Len(popped)].tree.children[next_index + 1],
                            child_index |-> next_index,
                            byte_offset |-> byte_offset])
       ELSE reusable_node_popped(popped, byte_offset)

reusable_node_advance(self_) ==
    LET last_entry == self_.stack[Len(self_.stack)] IN
    [stack |-> reusable_node_popped(self_.stack,
                   last_entry.byte_offset + ts_subtree_total_bytes(last_entry.tree)),
     last_external_token |->
         IF ts_subtree_has_external_tokens(last_entry.tree)
         THEN ts_subtree_last_external_token(last_entry.tree)
         ELSE self_.last_external_token]

\* reusable_node_descend returns whether the last entry's tree has children.
reusable_node_can_descend(self_) ==
    ts_subtree_child_count(self_.stack[Len(self_.stack)].tree) > 0

reusable_node_descend(self_) ==
    IF reusable_node_can_descend(self_)
    THEN [self_ EXCEPT !.stack =
             Append(@, [tree |-> self_.stack[Len(self_.stack)].tree.children[1],
                        child_index |-> 0,
                        byte_offset |-> self_.stack[Len(self_.stack)].byte_offset])]
    ELSE self_

RECURSIVE reusable_node_advance_past_leaf(_)
reusable_node_advance_past_leaf(self_) ==
    IF reusable_node_can_descend(self_)
    THEN reusable_node_advance_past_leaf(reusable_node_descend(self_))
    ELSE reusable_node_advance(self_)

reusable_node_reset(tree) ==
    LET root == [stack |-> <<[tree |-> tree, child_index |-> 0, byte_offset |-> 0]>>,
                 last_external_token |-> NULL_SUBTREE]
    IN IF reusable_node_can_descend(root) THEN reusable_node_descend(root)
       ELSE reusable_node_clear(root)

\* ts_parser__breakdown_lookahead: the reusable node descends to a subtree
\* without children or made in the state given, and that is the lookahead
\* if it descended at all.
RECURSIVE breakdown_lookahead_descend(_, _, _, _)
breakdown_lookahead_descend(P, lookahead, state, did_descend) ==
    LET tree == reusable_node_tree(P.reusable_node)
    IN IF ts_subtree_child_count(tree) > 0 /\ ts_subtree_parse_state(tree) # state
       THEN breakdown_lookahead_descend(
                [P EXCEPT !.reusable_node = reusable_node_descend(@)],
                lookahead, state, TRUE)
       ELSE [P |-> P, lookahead |-> IF did_descend THEN tree ELSE lookahead]

ts_parser__breakdown_lookahead(P, lookahead, state) ==
    breakdown_lookahead_descend(P, lookahead, state, FALSE)

\* ts_parser__breakdown_top_of_stack: the pending subtrees on top of the
\* version are replaced by their children, as long as the last child pushed
\* has children itself.
RECURSIVE breakdown_push_children(_, _, _, _, _)
breakdown_push_children(S, version, parent, j, state) ==
    IF j >= ts_subtree_child_count(parent)
    THEN [S |-> S, state |-> state, pending |-> FALSE]
    ELSE LET after(pushed, next, pending) ==
                 IF j + 1 >= ts_subtree_child_count(parent)
                 THEN [S |-> pushed, state |-> next, pending |-> pending]
                 ELSE breakdown_push_children(pushed, version, parent, j + 1, next)
             push(child, next, pending) ==
                 after(ts_stack_push(S, version, child, pending, next), next, pending)
             with(child) ==
                 push(child,
                      IF ts_subtree_is_error(child) THEN ERROR_STATE
                      ELSE IF ~ts_subtree_extra(child)
                      THEN ts_language_next_state(state, ts_subtree_symbol(child))
                      ELSE state,
                      ts_subtree_child_count(child) > 0)
         IN with(parent.children[j + 1])

RECURSIVE breakdown_slices(_, _, _, _)
breakdown_slices(S, slices, i, pending) ==
    IF i > Len(slices) THEN [S |-> S, pending |-> pending]
    ELSE LET after(slice, children) ==
                 breakdown_slices(
                     push_all(children.S, slice.version,
                              SubSeq(slice.subtrees, 2, Len(slice.subtrees)), 1,
                              children.state),
                     slices, i + 1,
                     IF ts_subtree_child_count(slice.subtrees[1]) > 0
                     THEN children.pending ELSE pending)
             with(slice) ==
                 after(slice,
                       breakdown_push_children(S, slice.version, slice.subtrees[1], 0,
                                               ts_stack_state(S, slice.version)))
         IN with(slices[i])

RECURSIVE breakdown_top_loop(_, _, _)
breakdown_top_loop(S, version, did_break_down) ==
    LET after(pop, broken) ==
            IF Len(pop.slices) = 0 THEN [S |-> S, did_break_down |-> did_break_down]
            ELSE IF broken.pending THEN breakdown_top_loop(broken.S, version, TRUE)
            ELSE [S |-> broken.S, did_break_down |-> TRUE]
        with(pop) == after(pop, breakdown_slices(pop.S, pop.slices, 1, FALSE))
    IN with(ts_stack_pop_pending(S, version))

ts_parser__breakdown_top_of_stack(P, version) ==
    LET after(broken) == [P |-> [P EXCEPT !.stack = broken.S],
                          did_break_down |-> broken.did_break_down]
    IN after(breakdown_top_loop(P.stack, version, FALSE))

RECURSIVE merge_times(_, _, _, _)
merge_times(S, version1, version2, times) ==
    IF times <= 0 THEN S
    ELSE merge_times(ts_stack_merge(S, version1, version2), version1, version2, times - 1)

\* The recovery at the end of ts_parser__handle_error: a lookahead with
\* children is broken down first.
handle_error_recover(P, version, lookahead) ==
    LET recover(broken) == ts_parser__recover(broken.P, version, broken.lookahead)
    IN recover(IF ts_subtree_child_count(lookahead) > 0
               THEN ts_parser__breakdown_lookahead(P, lookahead, ERROR_STATE)
               ELSE [P |-> P, lookahead |-> lookahead])

\* What the merges of merge_times return, one after the other.
RECURSIVE merge_results(_, _, _, _)
merge_results(S, version1, version2, times) ==
    IF times <= 0 THEN << >>
    ELSE <<ts_stack_can_merge(S, version1, version2)>>
         \o merge_results(ts_stack_merge(S, version1, version2), version1, version2,
                          times - 1)

\* The parser's merge_log takes what the merges of ts_parser__handle_error
\* returned (it is no field of the parser).
handle_error_pushed(pushed, version, lookahead, h) ==
    handle_error_recover(
        [pushed EXCEPT !.stack =
            ts_stack_record_summary(
                merge_times(pushed.stack, version, h.previous_version_count,
                            h.version_count - h.previous_version_count),
                version, MAX_SUMMARY_DEPTH),
                       !.merge_log =
            Append(@, [version |-> version,
                       previous_version_count |-> h.previous_version_count,
                       version_count |-> h.version_count,
                       did_merge |-> merge_results(
                           pushed.stack, version, h.previous_version_count,
                           h.version_count - h.previous_version_count)])],
        version, lookahead)

handle_error_reduced(reduced, version, lookahead, previous_version_count) ==
    LET h == [version |-> version, lookahead |-> lookahead,
              version_count |-> ts_stack_version_count(reduced.stack),
              previous_version_count |-> previous_version_count]
    IN handle_error_pushed(push_discontinuity(reduced, version, FALSE, h),
                           version, lookahead, h)

\* A mutant of ts_parser__handle_error: the discontinuity is pushed onto
\* the erroring version only.
ts_parser__handle_error_pushing_once(P, version, lookahead) ==
    LET merged(reduced, h) ==
            handle_error_pushed(
                push_discontinuity(reduced, version, FALSE,
                                   [h EXCEPT !.version_count = version + 1]),
                version, lookahead, h)
        with(reduced) ==
            merged(reduced, [version |-> version, lookahead |-> lookahead,
                             version_count |-> ts_stack_version_count(reduced.stack),
                             previous_version_count |-> ts_stack_version_count(P.stack)])
    IN with(ts_parser__do_all_potential_reductions(P, version, 0).P)

ts_parser__handle_error(P, version, lookahead) ==
    handle_error_reduced(ts_parser__do_all_potential_reductions(P, version, 0).P,
                         version, lookahead, ts_stack_version_count(P.stack))

\* ts_parser__check_progress: operations more are counted, and when the count
\* wraps at OP_COUNT_PER_PARSER_CALLBACK_CHECK the progress callback is asked;
\* cancel is the callback's answer.  ok is the function's result.
\* What an observer of the checkpoints has seen (it is no field of the
\* parser): since, the operations counted since the callback was invoked last
\* or the call was entered; invocations, the number of invocations in this
\* call; early, that the callback was invoked at a checkpoint with fewer than
\* OP_COUNT_PER_PARSER_CALLBACK_CHECK operations counted; late, that it was
\* not invoked at a checkpoint with that many.
NoProgress == [since |-> 0, invocations |-> 0, early |-> FALSE, late |-> FALSE]

progress_observed(progress, operations, invoked) ==
    [since |-> IF invoked THEN 0 ELSE progress.since + operations,
     invocations |-> IF invoked THEN progress.invocations + 1 ELSE progress.invocations,
     early |-> progress.early
               \/ (invoked /\ progress.since + operations
                                 < OP_COUNT_PER_PARSER_CALLBACK_CHECK),
     late |-> progress.late
              \/ (~invoked /\ progress.since + operations
                                 >= OP_COUNT_PER_PARSER_CALLBACK_CHECK)]

check_progress_counted(P, operations, operation_count, cancel) ==
    [P |-> [P EXCEPT !.operation_count = operation_count,
                     !.progress = progress_observed(@, operations, operation_count = 0)],
     ok |-> ~(operation_count = 0 /\ cancel)]

\* A mutant of ts_parser__check_progress: the count starts again after it
\* has passed OP_COUNT_PER_PARSER_CALLBACK_CHECK, one operation late.
check_progress_late(P, operations, cancel) ==
    check_progress_counted(P, operations,
        IF P.operation_count + operations > OP_COUNT_PER_PARSER_CALLBACK_CHECK THEN 0
        ELSE P.operation_count + operations,
        cancel)

ts_parser__check_progress(P, operations, cancel) ==
    check_progress_counted(P, operations,
        IF P.operation_count + operations >= OP_COUNT_PER_PARSER_CALLBACK_CHECK THEN 0
        ELSE P.operation_count + operations,
        cancel)

ts_parser__can_reuse_first_leaf(state, tree, table_entry) ==
    LET current_lex_mode == ts_language_lex_mode_for_state(state)
        leaf_lex_mode == ts_language_lex_mode_for_state(ts_subtree_leaf_parse_state(tree))
    IN IF table_entry.action_count > 0 /\ leaf_lex_mode = current_lex_mode THEN TRUE
       ELSE IF ts_subtree_size(tree) = 0
               /\ ts_subtree_leaf_symbol(tree) # ts_builtin_sym_end THEN FALSE
       ELSE current_lex_mode.external_lex_state = 0 /\ table_entry.is_reusable

\* ts_range_array_intersects of get_changed_ranges.rs: does a range from
\* start_index on overlap the bytes from start_byte to end_byte?
RECURSIVE ts_range_array_intersects(_, _, _, _)
ts_range_array_intersects(self_, start_index, start_byte, end_byte) ==
    IF start_index >= Len(self_) THEN FALSE
    ELSE IF self_[start_index + 1].end_byte > start_byte
    THEN self_[start_index + 1].start_byte < end_byte
    ELSE ts_range_array_intersects(self_, start_index + 1, start_byte, end_byte)

ts_parser__has_included_range_difference(P, start_position, end_position) ==
    ts_range_array_intersects(P.included_range_differences,
                              P.included_range_difference_index,
                              start_position, end_position)

\* A mutant of cant_reuse_node: a fragile subtree may be reused.
cant_reuse_node_unless_fragile(P, result, byte_offset, end_byte_offset) ==
    \/ ts_subtree_has_changes(result)
    \/ ts_subtree_is_error(result)
    \/ ts_subtree_missing(result)
    \/ ts_parser__has_included_range_difference(P, byte_offset, end_byte_offset)

\* May the reusable node's tree not be reused whatever the state is?
cant_reuse_node(P, result, byte_offset, end_byte_offset) ==
    \/ ts_subtree_has_changes(result)
    \/ ts_subtree_is_error(result)
    \/ ts_subtree_missing(result)
    \/ ts_subtree_is_fragile(result)
    \/ ts_parser__has_included_range_difference(P, byte_offset, end_byte_offset)

RECURSIVE reuse_node_loop(_, _, _, _, _)
\* The loop of ts_parser__reuse_node.  The result holds the parser, the
\* state (ts_parser__breakdown_top_of_stack may change it) and the node
\* found, or NULL_SUBTREE.
reuse_node_loop(P, version, state, position, last_external_token) ==
    LET result == reusable_node_tree(P.reusable_node)
        byte_offset == reusable_node_byte_offset(P.reusable_node)
        end_byte_offset == IF ts_subtree_is_eof(result) THEN u32_MAX
                           ELSE byte_offset + ts_subtree_total_bytes(result)
        none == [P |-> P, state |-> state, lookahead |-> NULL_SUBTREE]
        advanced == [P EXCEPT !.reusable_node = reusable_node_advance(@)]
        descended == [P EXCEPT !.reusable_node = reusable_node_descend(@)]
        again(broken) == reuse_node_loop(broken, version,
                                         ts_stack_state(broken.stack, version), position,
                                         last_external_token)
    IN IF IsNull(result) THEN none
       ELSE IF byte_offset > position THEN none
       ELSE IF byte_offset < position
       THEN IF end_byte_offset <= position \/ ~reusable_node_can_descend(P.reusable_node)
            THEN reuse_node_loop(advanced, version, state, position, last_external_token)
            ELSE reuse_node_loop(descended, version, state, position, last_external_token)
       ELSE IF ~ts_subtree_external_scanner_state_eq(P.reusable_node.last_external_token,
                                                     last_external_token)
       THEN reuse_node_loop(advanced, version, state, position, last_external_token)
       ELSE IF cant_reuse_node(P, result, byte_offset, end_byte_offset)
       THEN IF reusable_node_can_descend(P.reusable_node)
            THEN reuse_node_loop(descended, version, state, position, last_external_token)
            ELSE again(ts_parser__breakdown_top_of_stack(advanced, version).P)
       ELSE IF ~ts_parser__can_reuse_first_leaf(
                   state, result,
                   ts_language_table_entry(state, ts_subtree_leaf_symbol(result)))
       THEN [none EXCEPT !.P.reusable_node = reusable_node_advance_past_leaf(@)]
       ELSE [P |-> P, state |-> state, lookahead |-> result]

ts_parser__reuse_node(P, version, state, position, last_external_token) ==
    reuse_node_loop(P, version, state, position, last_external_token)

ts_parser__get_cached_token(P, state, position) ==
    LET cache == P.token_cache IN
    IF /\ ~IsNull(cache.token)
       /\ cache.byte_index = position
       /\ ts_parser__can_reuse_first_leaf(
             state, cache.token,
             ts_language_table_entry(state, ts_subtree_symbol(cache.token)))
    THEN cache.token
    ELSE NULL_SUBTREE

ts_parser__set_cached_token(P, byte_index, token) ==
    [P EXCEPT !.token_cache = [token |-> token, byte_index |-> byte_index]]

RECURSIVE condense_compare(_, _, _, _)
\* The inner loop of ts_parser__condense_stack: version i against the
\* versions from j on.  status_i is read once, before the loop.
condense_compare(S, i, j, status_i) ==
    IF j >= i THEN [S |-> S, i |-> i]
    ELSE
    LET status_j == ts_parser__version_status(S, j)
        read == ts_stack_lower_count_at_last_error(S, j)
        comparison == ts_parser__compare_versions(status_j, status_i)
    IN
    IF comparison = "TakeLeft"
    THEN [S |-> ts_stack_remove_version(read, i), i |-> i - 1]
    ELSE IF comparison \in {"PreferLeft", "None"}
    THEN (IF ts_stack_can_merge(read, j, i)
          THEN [S |-> ts_stack_merge(read, j, i), i |-> i - 1]
          ELSE condense_compare(read, i, j + 1, status_i))
    ELSE IF comparison = "PreferRight"
    THEN (IF ts_stack_can_merge(read, j, i)
          THEN [S |-> ts_stack_merge(read, j, i), i |-> i - 1]
          ELSE condense_compare(ts_stack_swap_versions(read, i, j), i, j + 1, status_i))
    ELSE condense_compare(ts_stack_remove_version(read, j), i - 1, j, status_i)

RECURSIVE condense_versions(_, _, _)
RECURSIVE condense_compared(_, _, _)
RECURSIVE condense_status(_, _, _, _)
\* The first loop of ts_parser__condense_stack: the stack it leaves and
\* min_error_cost.
condense_compared(compared, status_i, min_error_cost) ==
    condense_versions(compared.S, compared.i + 1,
                      IF ~status_i.is_in_error /\ status_i.cost < min_error_cost
                      THEN status_i.cost ELSE min_error_cost)

condense_status(S, i, min_error_cost, status_i) ==
    condense_compared(
        condense_compare(ts_stack_lower_count_at_last_error(S, i), i, 0, status_i),
        status_i, min_error_cost)

condense_versions(S, i, min_error_cost) ==
    IF i >= ts_stack_version_count(S) THEN [S |-> S, min_error_cost |-> min_error_cost]
    ELSE IF ts_stack_is_halted(S, i)
    THEN condense_versions(ts_stack_remove_version(S, i), i, min_error_cost)
    ELSE condense_status(S, i, min_error_cost, ts_parser__version_status(S, i))

RECURSIVE remove_versions_from(_, _)
remove_versions_from(S, version) ==
    IF ts_stack_version_count(S) > version
    THEN remove_versions_from(ts_stack_remove_version(S, version), version)
    ELSE S

\* What the last loop of ts_parser__condense_stack did with a paused
\* version: resumed or removed it, and whether the stack then held a version
\* before it that was not paused.
paused_entry(S, version, resumed) ==
    [version |-> version, resumed |-> resumed,
     unpaused_ahead |-> \E j \in 0..(version - 1) : ~ts_stack_is_paused(S, j)]

RECURSIVE condense_paused(_, _, _, _, _)
condense_paused_resuming_any(P, i, n, has_unpaused_version, min_error_cost) ==
    IF i >= n THEN [P |-> P, min_error_cost |-> min_error_cost]
    ELSE IF ~ts_stack_is_paused(P.stack, i)
    THEN condense_paused(P, i + 1, n, TRUE, min_error_cost)
    ELSE IF P.accept_count < MAX_VERSION_COUNT
    THEN condense_paused(
            ts_parser__handle_error(
                [P EXCEPT !.stack = ts_stack_resume(@, i),
                          !.paused_log = Append(@, paused_entry(P.stack, i, TRUE))],
                i, P.stack.heads[i + 1].lookahead_when_paused),
            i + 1, n, TRUE, ts_stack_error_cost(P.stack, i))
    ELSE condense_paused(
            [P EXCEPT !.stack = ts_stack_remove_version(@, i),
                      !.paused_log = Append(@, paused_entry(P.stack, i, FALSE))],
            i, n - 1, has_unpaused_version, min_error_cost)

\* The last loop of ts_parser__condense_stack: the best paused version is
\* resumed and its error handled, the other paused versions are removed.
condense_paused(P, i, n, has_unpaused_version, min_error_cost) ==
    IF i >= n THEN [P |-> P, min_error_cost |-> min_error_cost]
    ELSE IF ~ts_stack_is_paused(P.stack, i)
    THEN condense_paused(P, i + 1, n, TRUE, min_error_cost)
    ELSE IF ~has_unpaused_version /\ P.accept_count < MAX_VERSION_COUNT
    THEN condense_paused(
            ts_parser__handle_error(
                [P EXCEPT !.stack = ts_stack_resume(@, i),
                          !.paused_log = Append(@, paused_entry(P.stack, i, TRUE))],
                i, P.stack.heads[i + 1].lookahead_when_paused),
            i + 1, n, TRUE, ts_stack_error_cost(P.stack, i))
    ELSE condense_paused(
            [P EXCEPT !.stack = ts_stack_remove_version(@, i),
                      !.paused_log = Append(@, paused_entry(P.stack, i, FALSE))],
            i, n - 1, has_unpaused_version, min_error_cost)

\* ts_parser__condense_stack: the parser it leaves and the min_error_cost it
\* returns.
condense_bounded(bounded, min_error_cost) ==
    IF ts_stack_version_count(bounded.stack) > 0
    THEN condense_paused(bounded, 0, ts_stack_version_count(bounded.stack), FALSE,
                         min_error_cost)
    ELSE [P |-> bounded, min_error_cost |-> min_error_cost]

condense_condensed(P, condensed) ==
    condense_bounded(
        [P EXCEPT !.stack = remove_versions_from(condensed.S, MAX_VERSION_COUNT)],
        condensed.min_error_cost)

ts_parser__condense_stack(P) ==
    condense_condensed(P, condense_versions(P.stack, 0, u32_MAX))

RECURSIVE advance_actions(_, _, _, _, _)
RECURSIVE advance_reduced(_, _, _, _)
\* The loop of ts_parser__advance over the actions of the table entry, from
\* the i-th; a holds the locals version, state, lookahead and table_entry.
\* returned tells that the function returned true from inside the loop.
advance_reduced(reduced, a, i, last_reduction_version) ==
    advance_actions(reduced.P, a, i + 1, TRUE,
                    IF reduced.version # STACK_VERSION_NONE THEN reduced.version
                    ELSE last_reduction_version)

\* The lookahead is shifted: one with children is broken down to the
\* subtree made in this state, and the state after it is looked up.
advance_shift(P, a, action) ==
    LET reused(shifted) ==
            IF a.did_reuse
            THEN [shifted EXCEPT !.reusable_node = reusable_node_advance(@)]
            ELSE shifted
        shift(broken, state) ==
            reused(ts_parser__shift(broken.P, a.version, state, broken.lookahead,
                                    action.extra))
        with(broken) ==
            shift(broken,
                  IF ts_subtree_child_count(a.lookahead) > 0
                  THEN ts_language_next_state(a.state, ts_subtree_symbol(broken.lookahead))
                  ELSE IF action.extra THEN a.state ELSE action.state)
    IN with(IF ts_subtree_child_count(a.lookahead) > 0
            THEN ts_parser__breakdown_lookahead(P, a.lookahead, a.state)
            ELSE [P |-> P, lookahead |-> a.lookahead])

advance_recover(P, a) ==
    LET reused(recovered) ==
            IF a.did_reuse
            THEN [recovered EXCEPT !.reusable_node = reusable_node_advance(@)]
            ELSE recovered
    IN reused(handle_error_recover(P, a.version, a.lookahead))

advance_actions(P, a, i, did_reduce, last_reduction_version) ==
    LET fall_through == [P |-> P, returned |-> FALSE, did_reduce |-> did_reduce,
                         last_reduction_version |-> last_reduction_version]
        action == a.table_entry.actions[i]
    IN
    IF i > a.table_entry.action_count THEN fall_through
    ELSE IF action.type_ = "Shift"
    THEN IF action.repetition THEN fall_through
         ELSE [fall_through EXCEPT
                 !.returned = TRUE,
                 !.P = advance_shift(P, a, action)]
    ELSE IF action.type_ = "Reduce"
    THEN advance_reduced(
             ts_parser__reduce(P, a.version, action.symbol, action.child_count,
                               action.dynamic_precedence, action.production_id,
                               a.table_entry.action_count > 1,
                               IsNull(a.lookahead)),
             a, i, last_reduction_version)
    ELSE IF action.type_ = "Accept"
    THEN [fall_through EXCEPT !.returned = TRUE,
                              !.P = ts_parser__accept(P, a.version, a.lookahead)]
    ELSE IF action.type_ = "Recover"
    THEN [fall_through EXCEPT !.returned = TRUE,
                              !.P = advance_recover(P, a)]
    ELSE advance_actions(P, a, i + 1, did_reduce, last_reduction_version)

RECURSIVE advance_loop(_, _, _, _)
RECURSIVE advance_renumbered(_, _, _, _, _)
RECURSIVE advance_acted(_, _, _, _)
RECURSIVE advance_broken(_, _, _, _)
RECURSIVE advance_progress(_, _, _, _)
RECURSIVE advance_lexed(_, _, _, _, _)
\* The loop of ts_parser__advance; a holds the locals version, position,
\* state, lookahead, table_entry, needs_lex and did_reuse.  No token is a
\* keyword.
\* After a reduction the version takes the place of the one reduced, and
\* the loop goes on from its state with the same lookahead.
advance_renumbered(P, renumbered, b, cancel, text) ==
    LET state == ts_stack_state(renumbered, b.version)
    IN advance_loop([P EXCEPT !.stack = renumbered],
                    [b EXCEPT !.state = state,
                              !.table_entry =
                                  ts_language_table_entry(
                                      state, ts_subtree_leaf_symbol(b.lookahead))],
                    cancel, text)

\* No action applied: pending subtrees on top of the stack are broken down
\* and the lexer is run again, or else the version is paused.
advance_broken(broken, b, cancel, text) ==
    IF broken.did_break_down
    THEN advance_loop(broken.P,
                      [b EXCEPT !.state = ts_stack_state(broken.P.stack, b.version),
                                !.needs_lex = TRUE],
                      cancel, text)
    ELSE [P |-> [broken.P EXCEPT !.stack = ts_stack_pause(@, b.version, b.lookahead)],
          ok |-> TRUE]

advance_acted(acted, b, cancel, text) ==
    IF acted.returned THEN [P |-> acted.P, ok |-> TRUE]
    ELSE IF acted.last_reduction_version # STACK_VERSION_NONE
    THEN advance_renumbered(
             acted.P,
             ts_stack_renumber_version(acted.P.stack, acted.last_reduction_version,
                                       b.version),
             b, cancel, text)
    ELSE IF acted.did_reduce
    THEN [P |-> [acted.P EXCEPT !.stack = ts_stack_halt(@, b.version)], ok |-> TRUE]
    ELSE advance_broken(ts_parser__breakdown_top_of_stack(acted.P, b.version),
                        b, cancel, text)

advance_progress(progress, b, cancel, text) ==
    IF ~progress.ok THEN [P |-> progress.P, ok |-> FALSE]
    ELSE advance_acted(advance_actions(progress.P, b, 1, FALSE, STACK_VERSION_NONE),
                       b, cancel, text)

advance_lexed(P, a, cancel, text, lexed) ==
    advance_progress(
        ts_parser__check_progress(ts_parser__set_cached_token(P, a.position, lexed),
                                  1, cancel),
        [a EXCEPT !.needs_lex = FALSE,
                  !.lookahead = lexed,
                  !.table_entry =
                      ts_language_table_entry(a.state, ts_subtree_symbol(lexed))],
        cancel, text)

advance_loop(P, a, cancel, text) ==
    IF a.needs_lex /\ ts_parser__external_scanner_scan(P).has_scanner_error
    THEN [P |-> ts_parser__external_scanner_scan(P), ok |-> FALSE]
    ELSE IF a.needs_lex
    THEN advance_lexed(P, a, cancel, text, ts_parser__lex(text, a.position, a.state))
    ELSE advance_progress(ts_parser__check_progress(P, 1, cancel), a, cancel, text)

\* ts_parser__advance: the parser it leaves and its result.  The lookahead
\* is a node of the old tree if one can be reused, or else the cached token
\* or a token from the lexer.
advance_lookahead(P, version, state, position, lookahead, did_reuse, cancel, text) ==
    advance_loop(P,
                 [version |-> version, position |-> position, state |-> state,
                  lookahead |-> lookahead,
                  table_entry |-> IF IsNull(lookahead)
                                  THEN [action_count |-> 0, is_reusable |-> FALSE,
                                        actions |-> << >>]
                                  ELSE ts_language_table_entry(
                                          state, ts_subtree_leaf_symbol(lookahead)),
                  needs_lex |-> IsNull(lookahead),
                  did_reuse |-> did_reuse],
                 cancel, text)

advance_reused(reused, version, position, cancel, text) ==
    advance_lookahead(reused.P, version, reused.state, position,
                      IF ~IsNull(reused.lookahead) THEN reused.lookahead
                      ELSE ts_parser__get_cached_token(reused.P, reused.state, position),
                      ~IsNull(reused.lookahead), cancel, text)

ts_parser__advance(P, version, allow_node_reuse, cancel, text) ==
    advance_reused(
        IF allow_node_reuse
        THEN ts_parser__reuse_node(P, version, ts_stack_state(P.stack, version),
                                   ts_stack_position(P.stack, version),
                                   ts_stack_last_external_token(P.stack, version))
        ELSE [P |-> P, state |-> ts_stack_state(P.stack, version),
              lookahead |-> NULL_SUBTREE],
        version, ts_stack_position(P.stack, version), cancel, text)

\* ts_parser_has_outstanding_parse.  There is no external scanner, so the
\* external_scanner_payload is null.  The call of
\* ts_stack_node_count_since_error is made only when the tests before it
\* are false.
ts_parser_has_outstanding_parse(P) ==
    \/ P.canceled_balancing
    \/ P.external_scanner_payload # NULL_PAYLOAD
    \/ ts_stack_state(P.stack, 0) # 1
    \/ ts_stack_node_count_since_error(P.stack, 0) # 0

ts_parser_has_outstanding_parse_stack(P) ==
    IF \/ P.canceled_balancing
       \/ P.external_scanner_payload # NULL_PAYLOAD
       \/ ts_stack_state(P.stack, 0) # 1
    THEN P.stack
    ELSE ts_stack_lower_count_at_last_error(P.stack, 0)

\* A TSRange by its bytes.
TSRange(start_byte, end_byte) == [start_byte |-> start_byte, end_byte |-> end_byte]
DEFAULT_RANGE == TSRange(0, u32_MAX)

(***************************************************************************)
(* The difference of two included-range arrays (get_changed_ranges.rs).    *)
(* Positions are taken by their bytes: the functions compare bytes only.   *)
(***************************************************************************)
LENGTH_MAX == u32_MAX

\* ts_range_array_add: the range from start to end is joined to the last
\* range when it starts no later than that ends, and is pushed when it is
\* not empty.  (First a mutant of it, which joins no ranges.)
range_array_add_apart(self_, start, end) ==
    IF start < end THEN Append(self_, TSRange(start, end)) ELSE self_

ts_range_array_add(self_, start, end) ==
    IF Len(self_) > 0 /\ start <= self_[Len(self_)].end_byte
    THEN [self_ EXCEPT ![Len(self_)].end_byte = end]
    ELSE IF start < end THEN Append(self_, TSRange(start, end))
    ELSE self_

\* ranges.add(index): the range at index (from 0).  Behind the array's end
\* the read finds whatever the memory holds there: garbage.
range_at(ranges, index, garbage) ==
    IF index < Len(ranges) THEN ranges[index + 1] ELSE garbage

next_position_in(ranges, index, in_range, garbage) ==
    IF in_range THEN range_at(ranges, index, garbage).end_byte
    ELSE IF index < Len(ranges) THEN ranges[index + 1].start_byte
    ELSE LENGTH_MAX

\* One turn of the loop of ts_range_array_get_changed_ranges; w holds the
\* locals and the differences.
changed_ranges_turn(w, next_old_position, next_new_position) ==
    LET added(position) == IF w.in_old_range # w.in_new_range
                           THEN ts_range_array_add(w.differences, w.current_position,
                                                   position)
                           ELSE w.differences
    IN IF next_old_position < next_new_position
       THEN [w EXCEPT !.differences = added(next_old_position),
                      !.old_index = IF w.in_old_range THEN @ + 1 ELSE @,
                      !.current_position = next_old_position,
                      !.in_old_range = ~@]
       ELSE IF next_new_position < next_old_position
       THEN [w EXCEPT !.differences = added(next_new_position),
                      !.new_index = IF w.in_new_range THEN @ + 1 ELSE @,
                      !.current_position = next_new_position,
                      !.in_new_range = ~@]
       ELSE [w EXCEPT !.differences = added(next_new_position),
                      !.old_index = IF w.in_old_range THEN @ + 1 ELSE @,
                      !.new_index = IF w.in_new_range THEN @ + 1 ELSE @,
                      !.in_old_range = ~@,
                      !.in_new_range = ~@,
                      !.current_position = next_new_position]

RECURSIVE changed_ranges_loop(_, _, _, _)
changed_ranges_loop(old_ranges, new_ranges, w, garbage) ==
    IF w.old_index < Len(old_ranges) \/ w.new_index < Len(new_ranges)
    THEN changed_ranges_loop(old_ranges, new_ranges,
             changed_ranges_turn(w,
                 next_position_in(old_ranges, w.old_index, w.in_old_range, garbage),
                 next_position_in(new_ranges, w.new_index, w.in_new_range, garbage)),
             garbage)
    ELSE w

\* ts_range_array_get_changed_ranges, with differences empty at the call.
ts_range_array_get_changed_ranges(old_ranges, new_ranges, garbage) ==
    changed_ranges_loop(old_ranges, new_ranges,
        [new_index |-> 0, old_index |-> 0, current_position |-> 0,
         in_old_range |-> FALSE, in_new_range |-> FALSE, differences |-> << >>],
        garbage).differences

(***************************************************************************)
(* Balancing.  The finished tree is held by the parser alone once the      *)
(* stack is cleared, so each of its nodes has ref_count 1 and is changed   *)
(* in place.  A MutableSubtree of the pool's tree_stack is the place of a  *)
(* node in the finished tree: the indexes of the children that lead to it  *)
(* from the root.                                                          *)
(***************************************************************************)
RECURSIVE subtree_at(_, _)
subtree_at(tree, place) ==
    IF place = << >> THEN tree
    ELSE subtree_at(tree.children[Head(place)], Tail(place))

RECURSIVE subtree_put(_, _, _)
subtree_put(tree, place, new) ==
    IF place = << >> THEN new
    ELSE [tree EXCEPT !.children[Head(place)] = subtree_put(@, Tail(place), new)]

RECURSIVE compress_tree(_, _)
RECURSIVE compress_rotated(_, _, _, _, _)
RECURSIVE compress_summarized(_, _, _)
RECURSIVE compress_grandchild(_, _, _, _)
RECURSIVE compress_child(_, _, _)
\* A rotation that puts the child under the grandchild and leaves the
\* grandchild as the first child of the child.
compress_rotated_keeping_first(tree, child, grandchild, last, count) ==
    compress_summarized(
        tree, last,
        [grandchild EXCEPT !.children[last] =
            [child EXCEPT !.children[1] = grandchild.children[1]]])

\* ts_subtree_compress on the node itself: count rotations down the first
\* children, then the summaries of the rotated nodes from the deepest up.
\* The rotation, the levels below it, and the summaries on the way back.
compress_rotated(tree, child, grandchild, last, count) ==
    compress_summarized(
        tree, last,
        compress_tree([grandchild EXCEPT !.children[last] =
                          [child EXCEPT !.children[1] = grandchild.children[last]]],
                      count - 1))

compress_summarized(tree, last, deeper) ==
    ts_subtree_summarize_children(
        [tree EXCEPT !.children[1] =
            ts_subtree_summarize_children(
                [deeper EXCEPT !.children[last] = ts_subtree_summarize_children(@)])])

compress_grandchild(tree, child, grandchild, count) ==
    IF \/ ts_subtree_child_count(grandchild) < 2
       \/ ts_subtree_symbol(grandchild) # ts_subtree_symbol(tree)
    THEN tree
    ELSE compress_rotated(tree, child, grandchild, ts_subtree_child_count(grandchild),
                          count)

compress_child(tree, child, count) ==
    IF \/ ts_subtree_child_count(child) < 2
       \/ ts_subtree_symbol(child) # ts_subtree_symbol(tree)
    THEN tree
    ELSE compress_grandchild(tree, child, child.children[1], count)

compress_tree(tree, count) ==
    IF count = 0 \/ ts_subtree_child_count(tree) < 2 THEN tree
    ELSE compress_child(tree, tree.children[1], count)

RECURSIVE balance_compress(_, _, _, _)
RECURSIVE balance_compressed(_, _, _, _)
\* The loop of ts_parser__balance_subtree that compresses the node at place
\* by i, then by i / 2, and so on, with a progress check after each.
balance_compressed(progress, place, i, cancel) ==
    IF ~progress.ok THEN progress
    ELSE balance_compress(progress.P, place, i \div 2, cancel)

balance_compress(P, place, i, cancel) ==
    IF i <= 0 THEN [P |-> P, ok |-> TRUE]
    ELSE balance_compressed(
             ts_parser__check_progress(
                 [P EXCEPT !.finished_tree =
                     subtree_put(@, place, compress_tree(subtree_at(@, place), i))],
                 IF i \div 16 > 0 THEN i \div 16 ELSE 1, cancel),
             place, i, cancel)

\* A start that clears the tree_stack after a cancelled balancing too.
balance_begin_clearing(P) ==
    [P EXCEPT !.tree_stack = IF ts_subtree_child_count(P.finished_tree) > 0
                             THEN << << >> >> ELSE << >>]

\* The start of ts_parser__balance_subtree.
balance_begin(P) ==
    IF ~P.canceled_balancing
    THEN [P EXCEPT !.tree_stack = IF ts_subtree_child_count(P.finished_tree) > 0
                                  THEN << << >> >> ELSE << >>]
    ELSE P

\* One turn of the loop of ts_parser__balance_subtree over the tree_stack:
\* the parser it leaves, and FALSE for ok when the function returns false.
\* The children of the tree that have children are pushed in its place.
balance_push(compressed, place) ==
    IF ~compressed.ok THEN compressed
    ELSE [P |-> [compressed.P EXCEPT
                   !.tree_stack =
                       SubSeq(@, 1, Len(@) - 1)
                       \o SelectSeq(
                             [k \in 1..ts_subtree_child_count(
                                           subtree_at(compressed.P.finished_tree, place))
                                 |-> Append(place, k)],
                             LAMBDA child_place :
                                 ts_subtree_child_count(
                                     subtree_at(compressed.P.finished_tree,
                                                child_place)) > 0)],
          ok |-> TRUE]

\* The difference of the repeat depths of the first and the last child, as
\* ts_parser__balance_subtree computes it for a tree.
balance_repeat_delta(tree) ==
    ts_subtree_repeat_depth(tree.children[1])
    - ts_subtree_repeat_depth(tree.children[ts_subtree_child_count(tree)])

balance_tree(progress, place, tree, cancel) ==
    balance_push(IF ts_subtree_repeat_depth(tree) > 0 /\ balance_repeat_delta(tree) > 0
                 THEN balance_compress(progress.P, place,
                                       balance_repeat_delta(tree) \div 2, cancel)
                 ELSE progress,
                 place)

balance_progress(P, progress, cancel) ==
    IF ~progress.ok THEN progress
    ELSE balance_tree(progress, P.tree_stack[Len(P.tree_stack)],
                      subtree_at(P.finished_tree, P.tree_stack[Len(P.tree_stack)]),
                      cancel)

balance_turn(P, cancel) ==
    balance_progress(P, ts_parser__check_progress(P, 1, cancel), cancel)

\* ts_parser_new.  uninitialized is what ts_malloc's memory held where the
\* base node of the stack keeps its node_count and dynamic_precedence.
ts_parser_new(uninitialized) ==
    [stack |-> ts_stack_new(uninitialized),
     finished_tree |-> NULL_SUBTREE,
     accept_count |-> 0,
     operation_count |-> 0,
     canceled_balancing |-> FALSE,
     has_error |-> FALSE,
     old_tree |-> NULL_SUBTREE,
     reusable_node |-> reusable_node_new,
     included_range_differences |-> << >>,
     included_range_difference_index |-> 0,
     token_cache |-> [token |-> NULL_SUBTREE, byte_index |-> 0],
     tree_stack |-> << >>,
     input |-> << >>,
     progress |-> NoProgress,
     language |-> NULL_LANGUAGE,
     wasm_store |-> FALSE,
     has_scanner |-> FALSE,
     external_scanner_payload |-> NULL_PAYLOAD,
     has_scanner_error |-> FALSE,
     wasm_store_error |-> FALSE,
     reduce_log |-> << >>,
     paused_log |-> << >>,
     merge_log |-> << >>]

ts_parser_reset(P) ==
    [ts_parser__set_cached_token(P, 0, NULL_SUBTREE) EXCEPT
        !.external_scanner_payload = NULL_PAYLOAD,
        !.wasm_store_error = FALSE,
        !.has_scanner_error = FALSE,
        !.old_tree = NULL_SUBTREE,
        !.reusable_node = reusable_node_clear(@),
        !.stack = ts_stack_clear(@),
        !.finished_tree = NULL_SUBTREE,
        !.accept_count = 0,
        !.has_error = FALSE,
        !.canceled_balancing = FALSE]

(***************************************************************************)
(* Specification SpecParse: parse calls on one parser, with a progress     *)
(* callback that may ask for cancellation, and resets between the calls.   *)
(* Every call is ts_parser_parse_with_options with the same input, no old  *)
(* tree and a progress callback; a call returns null (cancelled) or a      *)
(* tree.  ps_call holds the place of the running call in ts_parser_parse   *)
(* ("main": the loop over the versions, "balance": the loop of             *)
(* ts_parser__balance_subtree), its locals, and the number of turns its    *)
(* loops have taken; ps_env holds what the caller has seen.                *)
(***************************************************************************)
MaxLen == 3
MaxGarbage == 1
MaxCalls == 3
MaxCancels == 2
MaxScannerErrors == 1
LongComments == 100
LongPairs == 20
TurnsPerByte == 8

RECURSIVE Texts(_)
Texts(n) == IF n = 0 THEN {<< >>}
            ELSE Texts(n - 1) \cup {Append(t, c) : t \in Texts(n - 1), c \in TextChars}

Comments(k) == [i \in 1..k |-> "c"]
Pairs(m) == [i \in 1..(2 * m) |-> IF i % 2 = 1 THEN "x" ELSE "y"]

\* The inputs: every short text, and three long ones whose parse passes the
\* hundredth operation in the initial state, in the middle of the main loop
\* and in balancing.
ParseTexts ==
    Texts(MaxLen) \cup {Comments(LongComments),
                        Comments(LongComments - 4) \o Pairs(2),
                        Pairs(LongPairs)}

NoReplacement == [none |-> TRUE]

\* A TSTree is its root and its included ranges; NULL_TREE is the null
\* pointer the caller passes when there is no old tree.
NULL_TREE == [null |-> TRUE]
ts_tree_new(root, included_ranges) == [root |-> root, included_ranges |-> included_ranges]

\* ts_parser_parse where it takes the old tree: the differences between its
\* included ranges and the lexer's (always the default range), and the
\* reusable node at the first child of its root.
parse_with_old_tree(P, old_tree) ==
    IF IsNull(old_tree)
    THEN [P EXCEPT !.reusable_node = reusable_node_clear(@)]
    ELSE [P EXCEPT !.old_tree = old_tree.root,
                   !.included_range_differences =
                       ts_range_array_get_changed_ranges(
                           old_tree.included_ranges, <<DEFAULT_RANGE>>, DEFAULT_RANGE),
                   !.reusable_node = reusable_node_reset(old_tree.root)]

\* The loop that follows ts_parser__condense_stack in ts_parser_parse.
RECURSIVE difference_index_past(_, _, _)
difference_index_past(differences, index, position) ==
    IF index < Len(differences) /\ differences[index + 1].end_byte <= position
    THEN difference_index_past(differences, index + 1, position)
    ELSE index

IdleCall == [pc |-> "idle", version |-> 0, position |-> 0, last_position |-> 0,
             version_count |-> 0, allow_node_reuse |-> FALSE, turns |-> 0,
             replaced |-> NoReplacement, reduces |-> << >>, paused |-> << >>,
             merges |-> << >>]

\* What ts_parser__accept replaced in a step of the main loop: the error
\* costs of the finished tree before the step and of the root that took its
\* place (the value before, when the step replaced nothing).
accept_replaced(before, after, replaced) ==
    IF /\ ~IsNull(before.finished_tree)
       /\ after.accept_count > before.accept_count
       /\ after.finished_tree # before.finished_tree
    THEN [old_cost |-> ts_subtree_error_cost(before.finished_tree),
          new_cost |-> ts_subtree_error_cost(after.finished_tree)]
    ELSE replaced

InitParse ==
    /\ \E text \in ParseTexts, node_count \in 0..MaxGarbage,
          dynamic_precedence \in 0..MaxGarbage, has_scanner \in BOOLEAN :
          /\ ps_parser = [ts_parser_new([node_count |-> node_count,
                                         dynamic_precedence |-> dynamic_precedence])
                            EXCEPT !.has_scanner = has_scanner,
                                   !.wasm_store = has_scanner,
                                   !.language = TSLanguage(TREE_SITTER_LANGUAGE_VERSION,
                                                           has_scanner)]
          /\ ps_env = [text |-> text, calls |-> 0, cancels |-> 0, resets |-> 0,
                       result |-> "none", tree |-> NULL_SUBTREE,
                       cancelled_in |-> "none", entered_after |-> "none",
                       outstanding |-> FALSE, init_runs |-> 0,
                       scanner_errors |-> 0, scanner_error |-> FALSE,
                       old_tree |-> NULL_TREE]
    /\ ps_call = IdleCall
    /\ sm_children = << >>
    /\ sm_node = NULL_SUBTREE
    /\ InitHeapVars
    /\ CrIdle
    /\ LexIdle
    /\ LangIdle
    /\ RangeIdle
    /\ ChangeIdle
    /\ StackIdle

\* The callback may ask for cancellation MaxCancels times.
MayCancel(cancel) == cancel => ps_env.cancels < MaxCancels

\* ts_parser_parse returns null: the progress callback asked to cancel.
\* May the wasm store report an error after the next call of the scanner?
\* (A step with an error is a step in which the scanner is called, and
\* ts_parser_reset resets the store.)
MayFail(wasm_store_error) ==
    wasm_store_error => ps_parser.has_scanner /\ ps_env.scanner_errors < MaxScannerErrors

\* The exit of ts_parser_parse after an error of the external scanner:
\* ts_parser_reset, and the result is null.
ReturnScannerError(P) ==
    /\ ps_parser' = ts_parser_reset(P)
    /\ ps_call' = IdleCall
    /\ ps_env' = [ps_env EXCEPT !.result = "null", !.tree = NULL_SUBTREE,
                                !.cancelled_in = "none",
                                !.scanner_error = TRUE,
                                !.scanner_errors = @ + 1]

ReturnCancelled(P, place) ==
    /\ ps_parser' = P
    /\ ps_call' = IdleCall
    /\ ps_env' = [ps_env EXCEPT !.result = "null", !.tree = NULL_SUBTREE,
                                !.cancelled_in = place, !.cancels = @ + 1]

\* ts_parser_parse up to its main loop: the input is set, the operations
\* are counted from 0, and an outstanding parse is resumed (in balancing if
\* that was cancelled) or the parse is initialised.
ParseCall ==
    /\ ps_call.pc = "idle"
    /\ ps_env.calls < MaxCalls
    /\ \E wasm_store_error \in BOOLEAN :
       LET P == [ps_parser EXCEPT !.input = ps_env.text, !.operation_count = 0,
                                  !.included_range_differences = << >>,
                                  !.included_range_difference_index = 0,
                                  !.progress = NoProgress,
                                  !.wasm_store_error = wasm_store_error]
           outstanding == ts_parser_has_outstanding_parse(P)
           tested == [P EXCEPT !.stack = ts_parser_has_outstanding_parse_stack(P)]
           created == IF outstanding THEN tested
                      ELSE ts_parser__external_scanner_create(tested)
           begun == IF outstanding THEN created
                    ELSE parse_with_old_tree(created, ps_env.old_tree)
           entered == [ps_env EXCEPT
                           !.calls = @ + 1,
                           !.result = "none",
                           !.tree = NULL_SUBTREE,
                           !.entered_after = ps_env.cancelled_in,
                           !.cancelled_in = "none",
                           !.scanner_error = FALSE,
                           !.outstanding = outstanding,
                           !.init_runs = IF outstanding THEN @ ELSE @ + 1]
       IN /\ MayFail(wasm_store_error)
          /\ wasm_store_error => ~outstanding
          /\ IF created.has_scanner_error
             THEN /\ ps_parser' = ts_parser_reset(created)
                  /\ ps_call' = IdleCall
                  /\ ps_env' = [entered EXCEPT !.result = "null",
                                               !.scanner_error = TRUE,
                                               !.scanner_errors = @ + 1]
             ELSE /\ ps_parser' = IF outstanding /\ P.canceled_balancing
                                   THEN balance_begin(begun) ELSE begun
                  /\ ps_call' = [IdleCall EXCEPT
                                   !.pc = IF outstanding /\ P.canceled_balancing
                                          THEN "balance" ELSE "main",
                                   !.allow_node_reuse =
                                       ts_stack_version_count(begun.stack) = 1]
                  /\ ps_env' = entered
    /\ UNCHANGED <<sumVars, heapVars, crVars, lexVars, langVars, rangeVars, changeVars, stackVars>>

\* One call of ts_parser__advance in the loop over the versions, and the
\* test of the position that follows it.
Advance ==
    /\ ps_call.pc = "main"
    /\ ps_call.version < ts_stack_version_count(ps_parser.stack)
    /\ ts_stack_is_active(ps_parser.stack, ps_call.version)
    /\ \E cancel \in BOOLEAN, wasm_store_error \in BOOLEAN :
          /\ MayCancel(cancel)
          /\ MayFail(wasm_store_error)
          /\ \E call \in {ts_parser__advance(
                              [ps_parser EXCEPT !.wasm_store_error = wasm_store_error],
                              ps_call.version, ps_call.allow_node_reuse, cancel,
                              ps_parser.input)} :
             LET advanced == [call EXCEPT !.P.reduce_log = << >>, !.P.merge_log = << >>]
                 position == ts_stack_position(advanced.P.stack, ps_call.version)
                 next == position > ps_call.last_position
                         \/ (ps_call.version > 0 /\ position = ps_call.last_position)
             IN IF wasm_store_error /\ ~advanced.P.has_scanner_error
                THEN FALSE
                ELSE IF ~advanced.ok /\ advanced.P.has_scanner_error
                THEN ReturnScannerError(advanced.P)
                ELSE IF ~advanced.ok
                THEN ReturnCancelled(advanced.P, "main")
                ELSE /\ ps_parser' = advanced.P
                     /\ ps_call' = [ps_call EXCEPT
                           !.version_count = ts_stack_version_count(ps_parser.stack),
                           !.turns = @ + 1,
                           !.reduces = call.P.reduce_log,
                           !.paused = << >>,
                           !.merges = call.P.merge_log,
                           !.replaced = accept_replaced(ps_parser, advanced.P, @),
                           !.position = position,
                           !.last_position = IF next THEN position ELSE @,
                           !.allow_node_reuse =
                               IF next THEN ts_stack_version_count(advanced.P.stack) = 1
                               ELSE @,
                           !.version = IF next THEN @ + 1 ELSE @]
                     /\ UNCHANGED ps_env
    /\ UNCHANGED <<sumVars, heapVars, crVars, lexVars, langVars, rangeVars, changeVars, stackVars>>

\* A version that is not active (any more) is passed over.
NextVersion ==
    /\ ps_call.pc = "main"
    /\ ps_call.version < ts_stack_version_count(ps_parser.stack)
    /\ ~ts_stack_is_active(ps_parser.stack, ps_call.version)
    /\ ps_call' = [ps_call EXCEPT
                      !.version_count = ts_stack_version_count(ps_parser.stack),
                      !.turns = @ + 1,
                      !.reduces = << >>,
                      !.paused = << >>,
                      !.merges = << >>,
                      !.allow_node_reuse = ts_stack_version_count(ps_parser.stack) = 1,
                      !.version = @ + 1]
    /\ UNCHANGED <<ps_parser, ps_env, sumVars, heapVars, crVars, lexVars, langVars, rangeVars, changeVars, stackVars>>

\* The end of a pass over the versions: ts_parser__condense_stack, the
\* tests that end the main loop, and the start of ts_parser__balance_subtree.
\* With no finished tree, balancing reads through a null pointer: "fault".
Condense ==
    /\ ps_call.pc = "main"
    /\ ps_call.version >= ts_stack_version_count(ps_parser.stack)
    /\ \E condensed \in {ts_parser__condense_stack(ps_parser)} :
       LET version_count == ts_stack_version_count(ps_parser.stack)
           P == [condensed.P EXCEPT !.reduce_log = << >>, !.paused_log = << >>,
                                    !.merge_log = << >>]
           finished == /\ ~IsNull(P.finished_tree)
                       /\ ts_subtree_error_cost(P.finished_tree) < condensed.min_error_cost
           cleared == IF finished THEN [P EXCEPT !.stack = ts_stack_clear(@)] ELSE P
       IN IF finished \/ version_count = 0
          THEN IF IsNull(cleared.finished_tree)
               THEN /\ ps_parser' = cleared
                    /\ ps_call' = [ps_call EXCEPT !.pc = "fault",
                                                  !.turns = @ + 1,
                                                  !.reduces = condensed.P.reduce_log,
                                             !.paused = condensed.P.paused_log,
                                             !.merges = condensed.P.merge_log,
                                                  !.version_count = version_count]
               ELSE /\ ps_parser' = balance_begin(cleared)
                    /\ ps_call' = [ps_call EXCEPT !.pc = "balance",
                                                  !.turns = @ + 1,
                                                  !.reduces = condensed.P.reduce_log,
                                             !.paused = condensed.P.paused_log,
                                             !.merges = condensed.P.merge_log,
                                                  !.version_count = version_count]
          ELSE /\ ps_parser' = [P EXCEPT !.included_range_difference_index =
                                    difference_index_past(P.included_range_differences,
                                                          @, ps_call.position)]
               /\ ps_call' = [ps_call EXCEPT !.version = 0,
                                             !.turns = @ + 1,
                                             !.reduces = condensed.P.reduce_log,
                                             !.paused = condensed.P.paused_log,
                                             !.merges = condensed.P.merge_log,
                                             !.allow_node_reuse =
                                                 ts_stack_version_count(P.stack) = 1,
                                             !.version_count = version_count]
    /\ UNCHANGED <<ps_env, sumVars, heapVars, crVars, lexVars, langVars, rangeVars, changeVars, stackVars>>

\* One turn of the loop of ts_parser__balance_subtree.
BalanceTurn ==
    /\ ps_call.pc = "balance"
    /\ ps_parser.tree_stack # << >>
    /\ \E cancel \in BOOLEAN :
          /\ MayCancel(cancel)
          /\ \E turned \in {balance_turn(ps_parser, cancel)} :
                IF ~turned.ok
                THEN ReturnCancelled([turned.P EXCEPT !.canceled_balancing = TRUE],
                                     "balance")
                ELSE /\ ps_parser' = turned.P
                     /\ ps_call' = [ps_call EXCEPT !.turns = @ + 1]
                     /\ UNCHANGED ps_env
    /\ UNCHANGED <<sumVars, heapVars, crVars, lexVars, langVars, rangeVars, changeVars, stackVars>>

\* Balancing is done: ts_tree_new takes the finished tree, the parser is
\* reset and the tree returned.
ParseReturn ==
    /\ ps_call.pc = "balance"
    /\ ps_parser.tree_stack = << >>
    /\ ps_parser' = ts_parser_reset([ps_parser EXCEPT !.canceled_balancing = FALSE,
                                                      !.finished_tree = NULL_SUBTREE])
    /\ ps_call' = IdleCall
    /\ ps_env' = [ps_env EXCEPT !.result = "tree", !.tree = ps_parser.finished_tree]
    /\ UNCHANGED <<sumVars, heapVars, crVars, lexVars, langVars, rangeVars, changeVars, stackVars>>

\* The caller resets the parser after a cancelled call.
ParserReset ==
    /\ ps_call.pc = "idle"
    /\ ps_env.result = "null"
    /\ ps_env.resets < 1
    /\ ps_parser' = ts_parser_reset(ps_parser)
    /\ ps_env' = [ps_env EXCEPT !.result = "none", !.cancelled_in = "none",
                                !.scanner_error = FALSE,
                                !.resets = @ + 1]
    /\ UNCHANGED <<ps_call, sumVars, heapVars, crVars, lexVars, langVars, rangeVars, changeVars, stackVars>>

NextParse ==
    \/ ParseCall \/ Advance \/ NextVersion \/ Condense
    \/ BalanceTurn \/ ParseReturn \/ ParserReset

SpecParse == InitParse /\ [][NextParse]_vars

(***************************************************************************)
(* Parsing the ambiguous head.  The same calls, on texts of a run of 'a'   *)
(* followed by "oq" (a source_file, in as many ways as the run divides     *)
(* into u and v) or by "oa" (an error after the 'o').                      *)
(***************************************************************************)
MaxRun == 7

Run(n) == [i \in 1..n |-> "a"]

AmbiguousTexts ==
    {Run(n) \o tail : n \in 2..MaxRun, tail \in {<<"o", "q">>, <<"o", "a">>}}

InitAmbiguous ==
    /\ \E text \in AmbiguousTexts :
          /\ ps_parser = [ts_parser_new([node_count |-> 0, dynamic_precedence |-> 0])
                            EXCEPT !.language = TSLanguage(TREE_SITTER_LANGUAGE_VERSION,
                                                           FALSE)]
          /\ ps_env = [text |-> text, calls |-> 0, cancels |-> 0, resets |-> 0,
                       result |-> "none", tree |-> NULL_SUBTREE,
                       cancelled_in |-> "none", entered_after |-> "none",
                       outstanding |-> FALSE, init_runs |-> 0,
                       scanner_errors |-> 0, scanner_error |-> FALSE,
                       old_tree |-> NULL_TREE]
    /\ ps_call = IdleCall
    /\ sm_children = << >>
    /\ sm_node = NULL_SUBTREE
    /\ InitHeapVars
    /\ CrIdle
    /\ LexIdle
    /\ LangIdle
    /\ RangeIdle
    /\ ChangeIdle
    /\ StackIdle

\* The caller of these parses does not cancel and so never has to reset.
NextAmbiguous ==
    \/ ParseCall \/ Advance \/ NextVersion \/ Condense
    \/ BalanceTurn \/ ParseReturn

SpecAmbiguous == InitAmbiguous /\ [][NextAmbiguous]_vars

(***************************************************************************)
(* Parsing the head of two conflicts.  The same calls, on the texts of     *)
(* "k", "a" and "q" that begin with "k": "kaq" is a source_file in         *)
(* Heads * Bodies ways, the others hold an error.                          *)
(***************************************************************************)
MaxConflictText == 4

RECURSIVE TextsOver(_, _)
TextsOver(chars, n) ==
    IF n = 0 THEN {<< >>}
    ELSE TextsOver(chars, n - 1)
         \cup {Append(text, c) : text \in TextsOver(chars, n - 1), c \in chars}

ConflictTexts ==
    {<<"k">> \o text : text \in TextsOver({"k", "a", "q"}, MaxConflictText - 1)}

InitConflict ==
    /\ \E text \in ConflictTexts :
          /\ ps_parser = [ts_parser_new([node_count |-> 0, dynamic_precedence |-> 0])
                            EXCEPT !.language = TSLanguage(TREE_SITTER_LANGUAGE_VERSION,
                                                           FALSE)]
          /\ ps_env = [text |-> text, calls |-> 0, cancels |-> 0, resets |-> 0,
                       result |-> "none", tree |-> NULL_SUBTREE,
                       cancelled_in |-> "none", entered_after |-> "none",
                       outstanding |-> FALSE, init_runs |-> 0,
                       scanner_errors |-> 0, scanner_error |-> FALSE,
                       old_tree |-> NULL_TREE]
    /\ ps_call = IdleCall
    /\ sm_children = << >>
    /\ sm_node = NULL_SUBTREE
    /\ InitHeapVars
    /\ CrIdle
    /\ LexIdle
    /\ LangIdle
    /\ RangeIdle
    /\ ChangeIdle
    /\ StackIdle

\* The caller of these parses does not cancel either.
NextConflict ==
    \/ ParseCall \/ Advance \/ NextVersion \/ Condense
    \/ BalanceTurn \/ ParseReturn

SpecConflict == InitConflict /\ [][NextConflict]_vars

\* The calls of ts_parser__reduce that the last step of the main loop made.
reduces == ps_call.reduces

\* C24: when ts_parser__reduce returns, the stack holds at most
\* MAX_VERSION_COUNT + MAX_VERSION_COUNT_OVERFLOW versions beside the halted
\* ones.
C24_ReduceKeepsVersionCap ==
    \A i \in 1..Len(reduces) :
        reduces[i].version_count
            <= MAX_VERSION_COUNT + MAX_VERSION_COUNT_OVERFLOW
               + reduces[i].halted_version_count

\* The parent was marked fragile: both bits set and no parse state.
marked_fragile(parent) ==
    /\ parent.fragile_left
    /\ parent.fragile_right
    /\ parent.parse_state = TS_TREE_STATE_NONE

\* The parent was not marked fragile: it holds the state of its version
\* under the popped children as parse state (its fragile bits are those its
\* first and last child gave it).
marked_with_state(built) ==
    /\ ~marked_fragile(built.parent)
    /\ built.parent.parse_state = built.state

\* Every parent that a call of ts_parser__reduce built is marked fragile if
\* the call satisfies the condition, and holds its state if not.
parents_marked_by(condition(_)) ==
    \A i \in 1..Len(reduces) :
        \A k \in 1..Len(reduces[i].parents) :
            IF condition(reduces[i])
            THEN marked_fragile(reduces[i].parents[k].parent)
            ELSE marked_with_state(reduces[i].parents[k])

called_fragile_or_many_slices(reduce) == reduce.is_fragile \/ reduce.slice_count > 1

fragile_or_many_slices_or_versions(reduce) ==
    \/ called_fragile_or_many_slices(reduce)
    \/ reduce.initial_version_count > 1

C29_StateKept ==
    \E i \in 1..Len(reduces) :
        /\ reduces[i].initial_version_count = 1
        /\ Len(reduces[i].parents) = 1
        /\ marked_with_state(reduces[i].parents[1])

\* The comparison of the statuses of two versions of a stack.
compared_versions(S, j, i) ==
    ts_parser__compare_versions(ts_parser__version_status(S, j),
                                ts_parser__version_status(S, i))

\* No version of the stack is to be preferred to, or taken for, a version
\* before it.
most_promising_first(S) ==
    \A i \in 0..(ts_stack_version_count(S) - 1) :
        \A j \in 0..(i - 1) :
            compared_versions(S, j, i) \notin {"PreferRight", "TakeRight"}

\* C25: after ts_parser__condense_stack the versions are ordered most
\* promising first: no version compares as better than a version before it.
C25_CondenseOrdersVersions ==
    [][Condense => most_promising_first(ps_parser'.stack)]_vars

\* What the last call of ts_parser__condense_stack did with the paused
\* versions it met.
paused == ps_call.paused

no_version_paused(S) ==
    \A version \in 0..(ts_stack_version_count(S) - 1) : ~ts_stack_is_paused(S, version)

\* C26: when ts_parser__condense_stack returns, no version is paused; a
\* paused version was resumed only with no unpaused version before it, and
\* the paused versions not resumed were removed.
C26_NoPausedAfterCondense ==
    [][Condense =>
          /\ no_version_paused(ps_parser'.stack)
          /\ \A k \in 1..Len(ps_call'.paused) :
                ps_call'.paused[k].resumed => ~ps_call'.paused[k].unpaused_ahead]_vars

\* A call of ts_parser__condense_stack met two paused versions: it resumed
\* the first, the best version, and removed the other.
C26_Witness ==
    /\ Len(paused) >= 2
    /\ paused[1].resumed
    /\ \E k \in 2..Len(paused) : ~paused[k].resumed
    /\ no_version_paused(ps_parser.stack)

\* A paused version behind an unpaused one was removed.
C26_RemovedBehindUnpaused ==
    \E k \in 1..Len(paused) : ~paused[k].resumed /\ paused[k].unpaused_ahead

\* C13: a call of ts_parser__condense_stack leaves at most MAX_VERSION_COUNT
\* versions in the stack, also when it resumed a paused version and ran the
\* error handling for it.
C13_CondenseKeepsVersionCount ==
    [][Condense => ts_stack_version_count(ps_parser'.stack) <= MAX_VERSION_COUNT]_vars

(***************************************************************************)
(* Claims about parse calls.                                               *)
(***************************************************************************)

\* C1: a parse call that is not cancelled returns a non-null tree: the main
\* loop never ends with every version removed and no finished tree, so
\* balancing always starts on a finished tree and the tree returned is one.
C1_TreeUnlessCancelled ==
    /\ ps_call.pc # "fault"
    /\ ps_call.pc = "balance" => ~IsNull(ps_parser.finished_tree)
    /\ ps_env.result = "tree" => ~IsNull(ps_env.tree)

\* A call has returned the tree of an input with an error in it, and the
\* main loop of the call ended with no version left on the stack.
C1_Witness ==
    /\ ps_env.result = "tree"
    /\ ~IsNull(ps_env.tree)
    /\ ts_subtree_error_cost(ps_env.tree) > 0
    /\ ps_env.cancels = 0

\* C2: a call cancelled in the main loop keeps the stack versions, the
\* finished tree and the old tree, and the next call continues the main loop
\* from them without running the initialisation of a parse again.
C2_ResumesWithoutInitialisation ==
    [][(ps_call.pc = "idle" /\ ps_env.cancelled_in = "main" /\ ps_call'.pc # "idle")
       => /\ ps_call'.pc = "main"
          /\ ps_parser'.stack.nodes = ps_parser.stack.nodes
          /\ Len(ps_parser'.stack.heads) = Len(ps_parser.stack.heads)
          /\ ps_parser'.finished_tree = ps_parser.finished_tree
          /\ ps_parser'.old_tree = ps_parser.old_tree
          /\ ps_env'.init_runs = ps_env.init_runs]_vars

\* C3: the call that follows a cancelled call finds has_outstanding_parse
\* true on entry, wherever the cancelled call had got to.
C3_OutstandingAfterCancel ==
    ps_env.entered_after # "none" => ps_env.outstanding

\* C4: a cancel during balancing sets canceled_balancing and keeps the
\* finished tree and the work stack; the next call goes to balancing at
\* once, from that work stack, without the main loop and without
\* initialisation, and the tree it returns is the finished tree.
C4_BalancingResumes ==
    [][/\ (ps_call.pc = "balance" /\ ps_env'.cancelled_in = "balance")
          => /\ ps_parser'.canceled_balancing
             /\ ~IsNull(ps_parser'.finished_tree)
             /\ ps_parser'.tree_stack # << >>
       /\ (ps_call.pc = "idle" /\ ps_parser.canceled_balancing /\ ps_call'.pc # "idle")
          => /\ ps_call'.pc = "balance"
             /\ ps_parser'.tree_stack = ps_parser.tree_stack
             /\ ps_parser'.finished_tree = ps_parser.finished_tree
             /\ ps_parser'.stack = ps_parser.stack
             /\ ps_env'.init_runs = ps_env.init_runs
       /\ (ps_env.entered_after = "balance" /\ ps_call.pc # "idle")
          => /\ ps_call.pc = "balance"
             /\ ps_call'.pc \in {"balance", "idle"}
             /\ ps_env'.result = "tree" => ps_env'.tree = ps_parser.finished_tree
      ]_vars

\* A call that resumed a cancelled balancing has returned its tree.
C4_Witness ==
    /\ ps_env.entered_after = "balance"
    /\ ps_env.result = "tree"
    /\ ts_subtree_symbol(ps_env.tree) = sym_source_file

\* C5: every parse call returns: the loop over the versions and the loop
\* of balancing both come to an end.  A call returns before its loops have
\* taken TurnsPerByte turns for each byte of the input and for its end.
C5_EveryCallReturns ==
    ps_call.turns <= TurnsPerByte * (Len(ps_env.text) + 1)

\* A call on the longest input has gone through both loops and returned.
C5_Witness ==
    /\ ps_env.result = "tree"
    /\ ps_env.text = Pairs(LongPairs)
    /\ ps_env.cancels = 0


\* C12: whenever ts_parser__accept puts a newly accepted root in the place
\* of a tree that was finished before, the error cost of the new root is at
\* most the error cost of the tree it replaces.
C12_AcceptReplacesByNoCostlier ==
    (ps_call # << >> /\ "old_cost" \in DOMAIN ps_call.replaced)
        => ps_call.replaced.new_cost <= ps_call.replaced.old_cost

\* A finished tree was replaced by a root of a smaller error cost.
C12_Witness ==
    /\ ps_call # << >>
    /\ "old_cost" \in DOMAIN ps_call.replaced
    /\ ps_call.replaced.new_cost < ps_call.replaced.old_cost

\* ts_parser_reset returned, and no call of ts_parser_parse followed yet.
JustReset ==
    /\ ps_call # << >>
    /\ ps_call.pc = "idle"
    /\ ps_env.resets > 0
    /\ ps_env.result = "none"

\* C14 (the claim as stated): after ts_parser_reset no parse is outstanding:
\* the stack holds exactly one version, Active at the base node (the initial
\* state 1 at position 0), there is no finished tree and no old tree,
\* canceled_balancing is false and accept_count is 0, and
\* ts_parser_has_outstanding_parse is false, so that the next call of
\* ts_parser_parse starts a new parse.
C14_NoOutstandingParseAfterReset ==
    JustReset =>
        /\ ts_stack_version_count(ps_parser.stack) = 1
        /\ ts_stack_is_active(ps_parser.stack, 0)
        /\ ts_stack_state(ps_parser.stack, 0) = 1
        /\ ts_stack_position(ps_parser.stack, 0) = 0
        /\ IsNull(ps_parser.finished_tree)
        /\ IsNull(ps_parser.old_tree)
        /\ ~ps_parser.canceled_balancing
        /\ ps_parser.accept_count = 0
        /\ ~ts_parser_has_outstanding_parse(ps_parser)

\* C15 (the claim as stated): when the external scanner reports an error
\* during a parse, ts_parser_parse returns null and leaves the parser reset:
\* has_scanner_error is false again and no parse is outstanding, so that
\* the next call starts a new parse.
C15_ResetAfterScannerError ==
    (ps_call # << >> /\ ps_call.pc = "idle" /\ ps_env.scanner_error)
        => /\ ps_env.result = "null"
           /\ ~ps_parser.has_scanner_error
           /\ ~ts_parser_has_outstanding_parse(ps_parser)

\* C20: the progress callback is invoked once every
\* OP_COUNT_PER_PARSER_CALLBACK_CHECK = 100 operations: at every checkpoint
\* (call of ts_parser__check_progress) at which the operations counted since
\* the invocation before, or since the call was entered, reach 100, and at
\* no other checkpoint.
C20_CallbackEveryHundredOperations ==
    ps_parser # << >> =>
        /\ ~ps_parser.progress.early
        /\ ~ps_parser.progress.late
        /\ ps_parser.progress.since < OP_COUNT_PER_PARSER_CALLBACK_CHECK

\* The callback was invoked in a call, let the parse go on, and operations
\* were counted again after it.
C20_Witness ==
    /\ ps_parser # << >>
    /\ ps_parser.progress.invocations = 1
    /\ ps_parser.progress.since > 0
    /\ ps_env.cancels = 0

(***************************************************************************)
(* The lexer (lexer.rs) and the included ranges.                           *)
(*                                                                         *)
(* A position is its byte count (the text holds one-byte characters on one *)
(* line).  LENGTH_UNDEFINED, the Length {bytes 0, column 1} that no token  *)
(* end can be, is the value -1.  A TSRange is [start_byte, end_byte].  The *)
(* input callback serves the text in chunks of at most input.chunk bytes   *)
(* and answers with a length of zero at and after the end of the text.     *)
(* The lex function is the grammar's: it is a caller of the vtable         *)
(* (advance, mark_end), and the specification lets it make any calls.      *)
(***************************************************************************)
LENGTH_UNDEFINED == 0 - 1
length_is_undefined(length) == length = LENGTH_UNDEFINED


\* The text's bytes number MaxText at most; a range's bytes lie in
\* 0..MaxText, and a list has MaxRanges ranges at most.
MaxText == 3
MaxRanges == 2
RangeBytes == 0..MaxText
AnyRanges == {TSRange(s, e) : s \in RangeBytes, e \in RangeBytes}
AnyRangeLists == UNION {[1..n -> AnyRanges] : n \in 0..MaxRanges}

ts_lexer__eof(self_) == self_.current_included_range_index = Len(self_.included_ranges)

ts_lexer__clear_chunk(self_) == [self_ EXCEPT !.chunk = "null", !.chunk_size = 0, !.chunk_start = 0]

\* input.read: the bytes of the text from byte_offset on, input.chunk at most.
input_read(input, byte_offset) ==
    IF byte_offset >= input.len THEN 0
    ELSE IF input.len - byte_offset < input.chunk THEN input.len - byte_offset
    ELSE input.chunk

ts_lexer__get_chunk(self_) ==
    LET chunk_size == input_read(self_.input, self_.current_position)
    IN  IF chunk_size = 0
        THEN [self_ EXCEPT !.chunk_start = self_.current_position,
                           !.chunk_size = 0,
                           !.current_included_range_index = Len(self_.included_ranges),
                           !.chunk = "null"]
        ELSE [self_ EXCEPT !.chunk_start = self_.current_position,
                           !.chunk_size = chunk_size,
                           !.chunk = "bytes"]

\* One-byte characters: the decoder reads one byte, and no chunk ends within
\* a character.
ts_lexer__get_lookahead(self_) ==
    IF self_.chunk_size - (self_.current_position - self_.chunk_start) = 0
    THEN [self_ EXCEPT !.lookahead_size = 1, !.lookahead = 0]
    ELSE [self_ EXCEPT !.lookahead_size = 1, !.lookahead = 1]

\* The first included range that ends after the position and is not empty
\* (0 when there is none).
RECURSIVE goto_find(_, _, _)
goto_find(included_ranges, bytes, i) ==
    IF i > Len(included_ranges) THEN 0
    ELSE IF included_ranges[i].end_byte > bytes
            /\ included_ranges[i].end_byte > included_ranges[i].start_byte THEN i
    ELSE goto_find(included_ranges, bytes, i + 1)

goto_found(self_, i) ==
    LET range == self_.included_ranges[i]
        moved == [self_ EXCEPT
                    !.current_position =
                        IF range.start_byte >= self_.current_position
                        THEN range.start_byte ELSE self_.current_position,
                    !.current_included_range_index = i - 1]
        cleared == IF moved.chunk # "null"
                      /\ (moved.current_position < moved.chunk_start
                          \/ moved.current_position >= moved.chunk_start + moved.chunk_size)
                   THEN ts_lexer__clear_chunk(moved) ELSE moved
    IN  [cleared EXCEPT !.lookahead_size = 0, !.lookahead = 0]

goto_beyond(self_) ==
    [ts_lexer__clear_chunk(self_) EXCEPT
        !.current_included_range_index = Len(self_.included_ranges),
        !.current_position = self_.included_ranges[Len(self_.included_ranges)].end_byte,
        !.lookahead_size = 1,
        !.lookahead = 0]

ts_lexer_goto(self_, position) ==
    LET at == [self_ EXCEPT !.current_position = position]
        i == goto_find(self_.included_ranges, position, 1)
    IN  IF i # 0 THEN goto_found(at, i) ELSE goto_beyond(at)

\* The loop of ts_lexer__do_advance: leave every range the position is past
\* the end of; the index counts from 0, and Len(included_ranges) is past the
\* last range (the pointer is null then).
RECURSIVE do_advance_ranges(_)
do_advance_ranges(self_) ==
    LET count == Len(self_.included_ranges)
        index == self_.current_included_range_index
        current_range == self_.included_ranges[index + 1]
    IN  IF self_.current_position < current_range.end_byte
           /\ current_range.end_byte # current_range.start_byte
        THEN self_
        ELSE IF index + 1 < count
        THEN do_advance_ranges([self_ EXCEPT
                 !.current_included_range_index = index + 1,
                 !.current_position = self_.included_ranges[index + 2].start_byte])
        ELSE [self_ EXCEPT !.current_included_range_index = count]

do_advance_read(self_, skip) ==
    LET started == IF skip THEN [self_ EXCEPT !.token_start_position = self_.current_position]
                   ELSE self_
    IN  IF ~ts_lexer__eof(started)
        THEN ts_lexer__get_lookahead(
                 IF started.current_position < started.chunk_start
                    \/ started.current_position >= started.chunk_start + started.chunk_size
                 THEN ts_lexer__get_chunk(started) ELSE started)
        ELSE [ts_lexer__clear_chunk(started) EXCEPT !.lookahead = 0, !.lookahead_size = 1]

ts_lexer__do_advance(self_, skip) ==
    do_advance_read(
        do_advance_ranges(
            IF self_.lookahead_size # 0
            THEN [self_ EXCEPT !.current_position = self_.current_position + self_.lookahead_size]
            ELSE self_),
        skip)

ts_lexer__advance(self_, skip) ==
    IF self_.chunk = "null" THEN self_ ELSE ts_lexer__do_advance(self_, skip)

ts_lexer__mark_end(self_) ==
    IF ~ts_lexer__eof(self_)
       /\ self_.current_included_range_index > 0
       /\ self_.current_position
            = self_.included_ranges[self_.current_included_range_index + 1].start_byte
    THEN [self_ EXCEPT !.token_end_position =
              self_.included_ranges[self_.current_included_range_index].end_byte]
    ELSE [self_ EXCEPT !.token_end_position = self_.current_position]

ts_lexer_reset(self_, position) ==
    IF position # self_.current_position THEN ts_lexer_goto(self_, position) ELSE self_

ts_lexer_set_input(self_, input) ==
    LET s == ts_lexer__clear_chunk([self_ EXCEPT !.input = input])
    IN  ts_lexer_goto(s, s.current_position)

\* The text starts with no byte order mark.
ts_lexer_start(self_) ==
    LET s == [self_ EXCEPT !.token_start_position = self_.current_position,
                           !.token_end_position = LENGTH_UNDEFINED]
        chunked == IF s.chunk_size = 0 THEN ts_lexer__get_chunk(s) ELSE s
    IN  IF ts_lexer__eof(s) THEN s
        ELSE IF chunked.lookahead_size = 0 THEN ts_lexer__get_lookahead(chunked)
        ELSE chunked

ts_lexer_finish(self_) ==
    LET s == IF length_is_undefined(self_.token_end_position)
             THEN ts_lexer__mark_end(self_) ELSE self_
    IN  IF s.token_end_position < s.token_start_position
        THEN [s EXCEPT !.token_start_position = s.token_end_position]
        ELSE s

\* Is the list one ts_lexer_set_included_ranges takes?  (The loop that
\* returns false at the first range out of order.)
RECURSIVE ranges_in_order(_, _, _)
ranges_in_order(ranges, i, previous_byte) ==
    IF i > Len(ranges) THEN TRUE
    ELSE IF ranges[i].start_byte < previous_byte \/ ranges[i].end_byte < ranges[i].start_byte
    THEN FALSE
    ELSE ranges_in_order(ranges, i + 1, ranges[i].end_byte)

\* A mutant of ts_lexer_set_included_ranges: the ranges are not compared
\* with the range before.
RECURSIVE ranges_each_in_order(_, _)
ranges_each_in_order(ranges, i) ==
    IF i > Len(ranges) THEN TRUE
    ELSE IF ranges[i].end_byte < ranges[i].start_byte THEN FALSE
    ELSE ranges_each_in_order(ranges, i + 1)

set_included_ranges_unordered(self_, ranges) ==
    IF Len(ranges) = 0
    THEN [ok |-> TRUE,
          lexer |-> ts_lexer_goto([self_ EXCEPT !.included_ranges = <<DEFAULT_RANGE>>],
                                  self_.current_position)]
    ELSE IF ~ranges_each_in_order(ranges, 1) THEN [ok |-> FALSE, lexer |-> self_]
    ELSE [ok |-> TRUE,
          lexer |-> ts_lexer_goto([self_ EXCEPT !.included_ranges = ranges],
                                  self_.current_position)]

\* The result and the lexer after the call.
ts_lexer_set_included_ranges(self_, ranges) ==
    IF Len(ranges) = 0
    THEN [ok |-> TRUE,
          lexer |-> ts_lexer_goto([self_ EXCEPT !.included_ranges = <<DEFAULT_RANGE>>],
                                  self_.current_position)]
    ELSE IF ~ranges_in_order(ranges, 1, 0) THEN [ok |-> FALSE, lexer |-> self_]
    ELSE [ok |-> TRUE,
          lexer |-> ts_lexer_goto([self_ EXCEPT !.included_ranges = ranges],
                                  self_.current_position)]

ts_parser_set_included_ranges(self_, ranges) == ts_lexer_set_included_ranges(self_, ranges)

ts_lexer_init ==
    ts_lexer_set_included_ranges(
        [current_position |-> 0, token_start_position |-> 0, token_end_position |-> 0,
         included_ranges |-> << >>, current_included_range_index |-> 0,
         chunk |-> "null", chunk_start |-> 0, chunk_size |-> 0,
         lookahead_size |-> 0, lookahead |-> 0,
         input |-> [len |-> 0, chunk |-> 1]],
        << >>).lexer

(***************************************************************************)
(* Two specifications: SpecIncludedRanges sets the included ranges of a    *)
(* parser, and SpecLex parses texts with a parser whose included ranges    *)
(* are set: ts_parser__lex produces the leaves from the start of the text  *)
(* on.  The grammar has no external scanner and no keywords.               *)
(***************************************************************************)
\* A lex function makes MaxLexCalls calls of the vtable at most, and the
\* included ranges of a parser are set MaxSetCalls times at most.
MaxLexCalls == 3
MaxSetCalls == 2

NoLeaf == [none |-> TRUE]
NoSetCall == [none |-> TRUE]

\* ts_parser__lex builds the leaf from the padding and the size, and the
\* stack's position moves to its end.
lex_leaf(start_position, token_start, token_end, is_error, at_eof) ==
    LET padding == length_sub(token_start, start_position)
        size == length_sub(token_end, token_start)
    IN  [start_byte |-> start_position + padding,
         end_byte |-> start_position + padding + size,
         is_error |-> is_error,
         eof |-> at_eof]

LexEnv == [pc |-> "idle", start_position |-> 0, leaf |-> NoLeaf,
           set_call |-> NoSetCall, set_calls |-> 0, lex_calls |-> 0,
           error_mode |-> FALSE, skipped_error |-> FALSE,
           error_start_position |-> 0, error_end_position |-> 0]

\* A new parser whose included ranges were set once, with a list the call
\* took.
InitLex ==
    /\ InitHeapVars
    /\ sm_children = << >>
    /\ sm_node = NULL_SUBTREE
    /\ CrIdle
    /\ ParseIdle
    /\ LangIdle
    /\ RangeIdle
    /\ ChangeIdle
    /\ StackIdle
    /\ \E ranges \in AnyRangeLists :
         /\ ts_parser_set_included_ranges(ts_lexer_init, ranges).ok
         /\ lx_lexer = ts_parser_set_included_ranges(ts_lexer_init, ranges).lexer
    /\ lx_env = LexEnv

\* A new parser.
InitIncludedRanges ==
    /\ InitHeapVars
    /\ sm_children = << >>
    /\ sm_node = NULL_SUBTREE
    /\ CrIdle
    /\ ParseIdle
    /\ LangIdle
    /\ RangeIdle
    /\ ChangeIdle
    /\ StackIdle
    /\ lx_lexer = ts_lexer_init
    /\ lx_env = LexEnv

\* ts_parser_set_included_ranges.
LxSetIncludedRanges ==
    /\ lx_env.set_calls < MaxSetCalls
    /\ \E ranges \in AnyRangeLists :
         \E set \in {ts_parser_set_included_ranges(lx_lexer, ranges)} :
           /\ lx_lexer' = set.lexer
           /\ lx_env' = [lx_env EXCEPT
                  !.set_calls = @ + 1,
                  !.set_call = [ranges |-> ranges, ok |-> set.ok,
                                before |-> lx_lexer.included_ranges]]
    /\ UNCHANGED <<sumVars, heapVars, crVars, parseVars, langVars, rangeVars, changeVars, stackVars>>

NextIncludedRanges == LxSetIncludedRanges

SpecIncludedRanges == InitIncludedRanges /\ [][NextIncludedRanges]_vars

\* ts_parser_parse: the input is set, and the stack's only version is at
\* position 0.
LxParse ==
    /\ lx_env.pc = "idle"
    /\ \E len \in 0..MaxText, chunk \in {1, MaxText} :
         lx_lexer' = ts_lexer_set_input(lx_lexer, [len |-> len, chunk |-> chunk])
    /\ lx_env' = [lx_env EXCEPT !.pc = "lex", !.start_position = 0, !.leaf = NoLeaf]
    /\ UNCHANGED <<sumVars, heapVars, crVars, parseVars, langVars, rangeVars, changeVars, stackVars>>

\* ts_parser__lex up to its loop.
LxLex ==
    /\ lx_env.pc = "lex"
    /\ lx_lexer' = ts_lexer_reset(lx_lexer, lx_env.start_position)
    /\ lx_env' = [lx_env EXCEPT !.pc = "start", !.leaf = NoLeaf,
                                !.error_mode = FALSE,
                                !.skipped_error = FALSE,
                                !.error_start_position = 0,
                                !.error_end_position = 0]
    /\ UNCHANGED <<sumVars, heapVars, crVars, parseVars, langVars, rangeVars, changeVars, stackVars>>

\* The loop's ts_lexer_start; the lex function is entered.
LxStart ==
    /\ lx_env.pc = "start"
    /\ lx_lexer' = ts_lexer_start(lx_lexer)
    /\ lx_env' = [lx_env EXCEPT !.pc = "fn", !.lex_calls = 0]
    /\ UNCHANGED <<sumVars, heapVars, crVars, parseVars, langVars, rangeVars, changeVars, stackVars>>

\* The lex function calls lexer->advance(lexer, skip).
LxAdvance ==
    /\ lx_env.pc = "fn"
    /\ lx_env.lex_calls < MaxLexCalls
    /\ \E skip \in BOOLEAN : lx_lexer' = ts_lexer__advance(lx_lexer, skip)
    /\ lx_env' = [lx_env EXCEPT !.lex_calls = @ + 1]
    /\ UNCHANGED <<sumVars, heapVars, crVars, parseVars, langVars, rangeVars, changeVars, stackVars>>

\* The lex function calls lexer->mark_end(lexer).
LxMarkEnd ==
    /\ lx_env.pc = "fn"
    /\ lx_env.lex_calls < MaxLexCalls
    /\ lx_lexer' = ts_lexer__mark_end(lx_lexer)
    /\ lx_env' = [lx_env EXCEPT !.lex_calls = @ + 1]
    /\ UNCHANGED <<sumVars, heapVars, crVars, parseVars, langVars, rangeVars, changeVars, stackVars>>

\* The leaf is shifted: the next token is lexed at its end, and the parse
\* ends with the leaf at the end of the input, the empty leaf the lexer
\* produces past the last included range (ts_parser_reset moves the lexer
\* back to the start).
lex_produced(lexer, env, leaf) ==
    /\ lx_lexer' = IF leaf.eof THEN ts_lexer_reset(lexer, length_zero) ELSE lexer
    /\ lx_env' = [env EXCEPT !.pc = IF leaf.eof THEN "idle" ELSE "lex",
                             !.leaf = leaf,
                             !.start_position = leaf.end_byte]

\* The lex function returns true: ts_lexer_finish, and the leaf (the error
\* leaf when characters were skipped before the token).
LxFound ==
    /\ lx_env.pc = "fn"
    /\ \E finished \in {ts_lexer_finish(lx_lexer)} :
         lex_produced(finished, lx_env,
             IF lx_env.skipped_error
             THEN lex_leaf(lx_env.start_position, lx_env.error_start_position,
                           lx_env.error_end_position, TRUE, FALSE)
             ELSE lex_leaf(lx_env.start_position, finished.token_start_position,
                           finished.token_end_position, FALSE,
                           ts_lexer__eof(finished)
                           /\ finished.token_start_position = finished.current_position
                           /\ finished.token_end_position = finished.current_position))
    /\ UNCHANGED <<sumVars, heapVars, crVars, parseVars, langVars, rangeVars, changeVars, stackVars>>

\* The lex function returns false: the token is lexed again in error mode,
\* and in error mode one character is skipped, or the error leaf ends at
\* the end of the input.
lex_not_found(finished, env) ==
    IF ~env.error_mode
    THEN /\ lx_lexer' = ts_lexer_reset(finished, env.start_position)
         /\ lx_env' = [env EXCEPT !.pc = "start", !.error_mode = TRUE]
    ELSE LET error_start == IF env.skipped_error THEN env.error_start_position
                            ELSE finished.token_start_position
             error_end == IF env.skipped_error THEN env.error_end_position
                          ELSE finished.token_start_position
             skipped == [env EXCEPT !.skipped_error = TRUE,
                                    !.error_start_position = error_start,
                                    !.error_end_position = error_end]
         IN  IF finished.current_position = error_end /\ ts_lexer__eof(finished)
             THEN lex_produced(finished, skipped,
                      lex_leaf(env.start_position, error_start, error_end, TRUE, TRUE))
             ELSE \E advanced \in {IF finished.current_position = error_end
                                   THEN ts_lexer__advance(finished, FALSE)
                                   ELSE finished} :
                    /\ lx_lexer' = advanced
                    /\ lx_env' = [skipped EXCEPT
                           !.pc = "start",
                           !.error_end_position = advanced.current_position]

LxNotFound ==
    /\ lx_env.pc = "fn"
    /\ lex_not_found(ts_lexer_finish(lx_lexer), lx_env)
    /\ UNCHANGED <<sumVars, heapVars, crVars, parseVars, langVars, rangeVars, changeVars, stackVars>>

NextLex ==
    \/ LxParse
    \/ LxLex
    \/ LxStart
    \/ LxAdvance
    \/ LxMarkEnd
    \/ LxFound
    \/ LxNotFound

SpecLex == InitLex /\ [][NextLex]_vars


\* Is every byte of [start_byte, end_byte) a byte of an included range?
InsideIncludedRanges(included_ranges, start_byte, end_byte) ==
    \A b \in start_byte..(end_byte - 1) :
        \E i \in 1..Len(included_ranges) :
            included_ranges[i].start_byte <= b /\ b < included_ranges[i].end_byte

\* C11 (the claim as stated): every leaf that lexing produces, the leaf at
\* the end of the input excepted, has its bytes [start_byte, end_byte)
\* inside the union of the included ranges: no leaf covers a byte that lies
\* between two included ranges.
C11_LeafInsideIncludedRanges ==
    (lx_env # << >> /\ ~("none" \in DOMAIN lx_env.leaf) /\ ~lx_env.leaf.eof)
        => InsideIncludedRanges(lx_lexer.included_ranges,
                                lx_env.leaf.start_byte, lx_env.leaf.end_byte)

\* C18: a call of set_included_ranges with a list in which a range starts
\* before the end of the range before it, or ends before its own start,
\* returns false and leaves the included ranges as they were; a call with
\* the empty list sets the one range of the whole document.
RangeListOutOfOrder(ranges) ==
    \E i \in 1..Len(ranges) :
        \/ ranges[i].end_byte < ranges[i].start_byte
        \/ i > 1 /\ ranges[i].start_byte < ranges[i - 1].end_byte

C18_InvalidRangesRejected ==
    (lx_env # << >> /\ "ranges" \in DOMAIN lx_env.set_call) =>
        /\ RangeListOutOfOrder(lx_env.set_call.ranges)
              => /\ ~lx_env.set_call.ok
                 /\ lx_lexer.included_ranges = lx_env.set_call.before
        /\ lx_env.set_call.ranges = << >>
              => /\ lx_env.set_call.ok
                 /\ lx_lexer.included_ranges = <<TSRange(0, u32_MAX)>>

\* A list of two ranges that overlap was rejected while other ranges than
\* the whole document were set.
C18_Witness ==
    /\ lx_env # << >>
    /\ "ranges" \in DOMAIN lx_env.set_call
    /\ Len(lx_env.set_call.ranges) = 2
    /\ lx_env.set_call.ranges[2].start_byte < lx_env.set_call.ranges[1].end_byte
    /\ lx_env.set_call.ranges[1].start_byte <= lx_env.set_call.ranges[1].end_byte
    /\ lx_env.set_call.ranges[2].start_byte <= lx_env.set_call.ranges[2].end_byte
    /\ ~lx_env.set_call.ok
    /\ lx_lexer.included_ranges # <<DEFAULT_RANGE>>

(***************************************************************************)
(* ts_parser_set_language (parser.rs) and the entry of ts_parser_parse.    *)
(***************************************************************************)
\* The tests of ts_parser_set_language on a parser that has been reset and
\* has no language.  started is the result of ts_wasm_store_start.
set_language_checked(P, language, started) ==
    IF /\ language # NULL_LANGUAGE
       /\ \/ language.abi_version > TREE_SITTER_LANGUAGE_VERSION
          \/ language.abi_version < TREE_SITTER_MIN_COMPATIBLE_LANGUAGE_VERSION
    THEN [ok |-> FALSE, P |-> P]
    ELSE IF ts_language_is_wasm(language) /\ (~P.wasm_store \/ ~started)
    THEN [ok |-> FALSE, P |-> P]
    ELSE [ok |-> TRUE, P |-> [P EXCEPT !.language = language]]

\* A mutant of ts_parser_set_language: the language the parser had stays
\* when the call fails.
set_language_keeping(P, language, started) ==
    IF set_language_checked(ts_parser_reset(P), language, started).ok
    THEN set_language_checked(ts_parser_reset(P), language, started)
    ELSE [ok |-> FALSE, P |-> ts_parser_reset(P)]

ts_parser_set_language(P, language, started) ==
    set_language_checked([ts_parser_reset(P) EXCEPT !.language = NULL_LANGUAGE],
                         language, started)

\* The first tests of ts_parser_parse: does the call return null before it
\* looks at the input?  has_read says that the input has a read callback.
parse_returns_early(P, has_read) ==
    \/ P.language = NULL_LANGUAGE
    \/ ~has_read
    \/ (ts_language_is_wasm(P.language) /\ ~P.wasm_store)

(***************************************************************************)
(* Specification SpecLanguage: calls of ts_parser_set_language with        *)
(* languages of every ABI version around the accepted ones, and calls of   *)
(* ts_parser_parse between them.  lg_env.set is the last call of           *)
(* ts_parser_set_language and its result; lg_env.parse is what the last    *)
(* call of ts_parser_parse after it returned: "null" at once, or           *)
(* "entered" when the call went on to parse.                               *)
(***************************************************************************)
VersionMargin == 2
MaxLanguageCalls == 3

AbiVersions ==
    (TREE_SITTER_MIN_COMPATIBLE_LANGUAGE_VERSION - VersionMargin)
        ..(TREE_SITTER_LANGUAGE_VERSION + VersionMargin)

AnyLanguages ==
    {NULL_LANGUAGE} \cup {TSLanguage(v, w) : v \in AbiVersions, w \in BOOLEAN}

NoLanguageCall == [none |-> TRUE]

InitLanguage ==
    /\ InitHeapVars
    /\ sm_children = << >>
    /\ sm_node = NULL_SUBTREE
    /\ CrIdle
    /\ ParseIdle
    /\ LexIdle
    /\ RangeIdle
    /\ ChangeIdle
    /\ StackIdle
    /\ \E wasm_store \in BOOLEAN :
         lg_parser = [ts_parser_new([node_count |-> 0, dynamic_precedence |-> 0])
                        EXCEPT !.wasm_store = wasm_store]
    /\ lg_env = [calls |-> 0, set |-> NoLanguageCall, parse |-> "none"]

LgSetLanguage ==
    /\ lg_env.calls < MaxLanguageCalls
    /\ \E language \in AnyLanguages, started \in BOOLEAN :
         \E set \in {ts_parser_set_language(lg_parser, language, started)} :
           /\ lg_parser' = set.P
           /\ lg_env' = [calls |-> lg_env.calls + 1,
                         set |-> [language |-> language, ok |-> set.ok,
                                  before |-> lg_parser.language],
                         parse |-> "none"]
    /\ UNCHANGED <<sumVars, heapVars, crVars, parseVars, lexVars, rangeVars, changeVars, stackVars>>

LgParse ==
    /\ lg_env.calls < MaxLanguageCalls
    /\ \E has_read \in BOOLEAN :
         lg_env' = [lg_env EXCEPT
                       !.calls = @ + 1,
                       !.parse = IF parse_returns_early(lg_parser, has_read)
                                 THEN "null" ELSE "entered"]
    /\ UNCHANGED <<lg_parser, sumVars, heapVars, crVars, parseVars, lexVars, rangeVars,
                   changeVars, stackVars>>

NextLanguage == LgSetLanguage \/ LgParse

SpecLanguage == InitLanguage /\ [][NextLanguage]_vars

UnsupportedCall ==
    /\ lg_env.set # NoLanguageCall
    /\ lg_env.set.language # NULL_LANGUAGE
    /\ lg_env.set.language.abi_version \notin
           TREE_SITTER_MIN_COMPATIBLE_LANGUAGE_VERSION..TREE_SITTER_LANGUAGE_VERSION

\* C19: ts_parser_set_language returns false for every language whose ABI
\* version is outside 13..15; after the failed call the parser has no
\* language, and a call of ts_parser_parse that follows returns null.
C19_UnsupportedLanguageRejected ==
    (lg_env # << >> /\ UnsupportedCall) =>
        /\ ~lg_env.set.ok
        /\ lg_parser.language = NULL_LANGUAGE
        /\ lg_env.parse \in {"none", "null"}

\* A parser that had a language was given one of version 16, and a parse
\* call with a read callback followed.
C19_Witness ==
    /\ lg_env # << >>
    /\ UnsupportedCall
    /\ lg_env.set.language.abi_version = TREE_SITTER_LANGUAGE_VERSION + 1
    /\ lg_env.set.before # NULL_LANGUAGE
    /\ lg_env.parse = "null"

(***************************************************************************)
(* Specification SpecRangeDifference: one call of                          *)
(* ts_range_array_get_changed_ranges on two arrays of included ranges that *)
(* ts_parser_set_included_ranges accepts (each range starts no earlier     *)
(* than the range before it ends, and ends no earlier than it starts).     *)
(***************************************************************************)
DifferenceBytes == RangeBytes \cup {u32_MAX}
DifferenceRanges == {TSRange(s, e) : s \in DifferenceBytes, e \in DifferenceBytes}
DifferenceRangeLists ==
    {ranges \in UNION {[1..n -> DifferenceRanges] : n \in 0..MaxRanges} :
        ranges_in_order(ranges, 1, 0)}

InitRangeDifference ==
    /\ InitHeapVars
    /\ sm_children = << >>
    /\ sm_node = NULL_SUBTREE
    /\ CrIdle
    /\ ParseIdle
    /\ LexIdle
    /\ LangIdle
    /\ ChangeIdle
    /\ StackIdle
    /\ \E old_ranges \in DifferenceRangeLists, new_ranges \in DifferenceRangeLists :
         rd_call = [pc |-> "called", old_ranges |-> old_ranges,
                    new_ranges |-> new_ranges, differences |-> << >>]

RdGetChangedRanges ==
    /\ rd_call.pc = "called"
    /\ \E garbage \in DifferenceRanges :
         rd_call' = [rd_call EXCEPT
                        !.pc = "returned",
                        !.differences = ts_range_array_get_changed_ranges(
                                            rd_call.old_ranges, rd_call.new_ranges,
                                            garbage)]
    /\ UNCHANGED <<sumVars, heapVars, crVars, parseVars, lexVars, langVars, changeVars, stackVars>>

NextRangeDifference == RdGetChangedRanges

SpecRangeDifference == InitRangeDifference /\ [][NextRangeDifference]_vars

range_array_covers(ranges, byte) ==
    \E i \in 1..Len(ranges) : ranges[i].start_byte <= byte /\ byte < ranges[i].end_byte

\* C17: for two sorted included-range arrays whose ranges do not overlap,
\* the differences hold exactly the bytes that one of the two arrays covers
\* and the other does not.
C17_DifferenceIsSymmetricDifference ==
    (rd_call # << >> /\ rd_call.pc = "returned") =>
        \A byte \in DifferenceBytes :
            range_array_covers(rd_call.differences, byte)
                <=> (range_array_covers(rd_call.old_ranges, byte)
                        # range_array_covers(rd_call.new_ranges, byte))

(***************************************************************************)
(* Edits of a tree (subtree.rs, tree.rs, get_changed_ranges.rs).  An edit  *)
(* is [start, old_end, new_end], positions in bytes.  The model's subtrees *)
(* are values, so ts_subtree_make_mut is the identity here; no subtree     *)
(* depends on a column.                                                    *)
(***************************************************************************)
\* An edit that starts before a subtree and reaches into it moves the
\* padding and leaves the size.
edit_extent_keeping_size(tree, edit) ==
    LET size == ts_subtree_size(tree)
        padding == ts_subtree_padding(tree)
        total_size == length_add(padding, size)
        is_pure_insertion == edit.old_end = edit.start
    IN IF edit.old_end <= padding
       THEN [padding |-> length_add(edit.new_end, length_sub(padding, edit.old_end)),
             size |-> size]
       ELSE IF edit.start < padding
       THEN [padding |-> edit.new_end, size |-> size]
       ELSE IF edit.start < total_size \/ (edit.start = total_size /\ is_pure_insertion)
       THEN [padding |-> padding,
             size |-> length_add(length_sub(edit.new_end, padding),
                                 length_saturating_sub(total_size, edit.old_end))]
       ELSE [padding |-> padding, size |-> size]

\* The padding and the size ts_subtree_edit gives a subtree.
edit_extent(tree, edit) ==
    LET size == ts_subtree_size(tree)
        padding == ts_subtree_padding(tree)
        total_size == length_add(padding, size)
        is_pure_insertion == edit.old_end = edit.start
    IN IF edit.old_end <= padding
       THEN [padding |-> length_add(edit.new_end, length_sub(padding, edit.old_end)),
             size |-> size]
       ELSE IF edit.start < padding
       THEN [padding |-> edit.new_end,
             size |-> length_saturating_sub(size, length_sub(edit.old_end, padding))]
       ELSE IF edit.start < total_size \/ (edit.start = total_size /\ is_pure_insertion)
       THEN [padding |-> padding,
             size |-> length_add(length_sub(edit.new_end, padding),
                                 length_saturating_sub(total_size, edit.old_end))]
       ELSE [padding |-> padding, size |-> size]

edit_untouched(tree, edit) ==
    LET end_byte == ts_subtree_total_size(tree) + ts_subtree_lookahead_bytes(tree)
        is_noop == edit.old_end = edit.start /\ edit.new_end = edit.start
    IN edit.start > end_byte \/ (is_noop /\ edit.start = end_byte)

RECURSIVE edit_tree(_, _)
RECURSIVE edit_tree_children(_, _, _, _, _)

\* The loop over the children in ts_subtree_edit, from child i (counted from
\* 0) on: child_left is where child i starts, edit the edit as the children
\* before have left it, is_pure_insertion what the subtree's own edit was.
edit_tree_children(children, i, child_left, edit, is_pure_insertion) ==
    IF i >= Len(children) THEN children
    ELSE LET child == children[i + 1]
             child_size == ts_subtree_total_size(child)
             child_right == length_add(child_left, child_size)
             child_edit == [start |-> length_saturating_sub(edit.start, child_left),
                            old_end |-> length_saturating_sub(edit.old_end, child_left),
                            new_end |-> length_saturating_sub(edit.new_end, child_left)]
             first == \/ child_right > edit.start
                      \/ (child_right = edit.start /\ is_pure_insertion)
         IN IF child_right + ts_subtree_lookahead_bytes(child) < edit.start
            THEN edit_tree_children(children, i + 1, child_right, edit, is_pure_insertion)
            ELSE IF \/ child_left > edit.old_end
                    \/ (child_left = edit.old_end /\ child_size > 0 /\ i > 0)
            THEN children
            ELSE edit_tree_children(
                     [children EXCEPT ![i + 1] =
                         edit_tree(child,
                                   IF first THEN child_edit
                                   ELSE [child_edit EXCEPT !.old_end = child_edit.start,
                                                           !.new_end = child_edit.start])],
                     i + 1, child_right,
                     IF first THEN [edit EXCEPT !.new_end = edit.start] ELSE edit,
                     is_pure_insertion)

\* ts_subtree_edit on a subtree held by value.
edit_tree(tree, edit) ==
    IF edit_untouched(tree, edit) THEN tree
    ELSE [tree EXCEPT !.padding = edit_extent(tree, edit).padding,
                      !.size = edit_extent(tree, edit).size,
                      !.has_changes = TRUE,
                      !.children = edit_tree_children(tree.children, 0, length_zero, edit,
                                                 edit.old_end = edit.start)]

\* ts_range_edit.  No number of the model comes near u32::MAX but end_byte
\* of the default range, so the sums do not wrap.
ts_range_edit(range, edit) ==
    LET end_byte ==
            IF range.end_byte >= edit.old_end
            THEN IF range.end_byte # u32_MAX
                 THEN edit.new_end + (range.end_byte - edit.old_end)
                 ELSE range.end_byte
            ELSE IF range.end_byte > edit.start THEN edit.start
            ELSE range.end_byte
        start_byte ==
            IF range.start_byte >= edit.old_end
            THEN edit.new_end + (range.start_byte - edit.old_end)
            ELSE IF range.start_byte > edit.start THEN edit.start
            ELSE range.start_byte
    IN TSRange(start_byte, end_byte)

\* A TSTree: its root and its included ranges.
ts_tree_edit(self_, edit) ==
    [root |-> edit_tree(self_.root, edit),
     included_ranges |-> [i \in 1..Len(self_.included_ranges) |->
                             ts_range_edit(self_.included_ranges[i], edit)]]

(***************************************************************************)
(* The iterators of get_changed_ranges.rs.  An Iterator is the cursor's    *)
(* stack of entries [subtree, position, child_index,                       *)
(* structural_child_index], visible_depth and in_padding.  The language    *)
(* has no aliases (ts_language_alias_at is 0) and no external tokens       *)
(* (prev_external_token stays null).                                       *)
(***************************************************************************)
TreeCursorEntry(subtree, position, child_index, structural_child_index) ==
    [subtree |-> subtree, position |-> position, child_index |-> child_index,
     structural_child_index |-> structural_child_index]

stack_back(stack) == stack[Len(stack)]
stack_pop(stack) == SubSeq(stack, 1, Len(stack) - 1)

iterator_new(tree) ==
    [stack |-> <<TreeCursorEntry(tree, length_zero, 0, 0)>>,
     visible_depth |-> 1,
     in_padding |-> FALSE]

iterator_done(self_) == Len(self_.stack) = 0

iterator_start_position(self_) ==
    IF self_.in_padding THEN stack_back(self_.stack).position
    ELSE length_add(stack_back(self_.stack).position,
                    ts_subtree_padding(stack_back(self_.stack).subtree))

iterator_end_position(self_) ==
    IF self_.in_padding
    THEN length_add(stack_back(self_.stack).position,
                    ts_subtree_padding(stack_back(self_.stack).subtree))
    ELSE length_add(length_add(stack_back(self_.stack).position,
                               ts_subtree_padding(stack_back(self_.stack).subtree)),
                    ts_subtree_size(stack_back(self_.stack).subtree))

iterator_tree_is_visible(self_) == ts_subtree_visible(stack_back(self_.stack).subtree)

\* iterator_get_visible_state: the innermost visible subtree at or above
\* the entry i (above the last entry when the iterator is in a padding) and
\* the position of its entry; tree stays null when there is none.
RECURSIVE visible_state_from(_, _)
visible_state_from(self_, i) ==
    IF ts_subtree_visible(self_.stack[i + 1].subtree)
    THEN [tree |-> self_.stack[i + 1].subtree, start_byte |-> self_.stack[i + 1].position]
    ELSE IF i = 0 THEN [tree |-> NULL_SUBTREE, start_byte |-> 0]
    ELSE visible_state_from(self_, i - 1)

iterator_get_visible_state(self_) ==
    IF self_.in_padding /\ Len(self_.stack) - 1 = 0
    THEN [tree |-> NULL_SUBTREE, start_byte |-> 0]
    ELSE visible_state_from(self_, IF self_.in_padding THEN Len(self_.stack) - 2
                                   ELSE Len(self_.stack) - 1)

iterator_ascend(self_) ==
    IF iterator_done(self_) THEN self_
    ELSE [self_ EXCEPT
            !.visible_depth = IF iterator_tree_is_visible(self_) /\ ~self_.in_padding
                              THEN @ - 1 ELSE @,
            !.in_padding = IF stack_back(self_.stack).child_index > 0 THEN FALSE ELSE @,
            !.stack = stack_pop(@)]

\* The loops of iterator_descend: the children of the last entry from child
\* i on, position where child i starts.  The result is the iterator and
\* what the function returns.
RECURSIVE descend_children(_, _, _, _, _)
descend_children(self_, goal_position, i, position, structural_child_index) ==
    LET entry == stack_back(self_.stack)
    IN IF i >= ts_subtree_child_count(entry.subtree)
       THEN [iter |-> self_, descended |-> FALSE]
       ELSE LET child == entry.subtree.children[i + 1]
                child_left == length_add(position, ts_subtree_padding(child))
                child_right == length_add(child_left, ts_subtree_size(child))
                pushed == [self_ EXCEPT !.stack = Append(@,
                              TreeCursorEntry(child, position, i, structural_child_index))]
            IN IF child_right > goal_position
               THEN IF iterator_tree_is_visible(pushed)
                    THEN [iter |-> IF child_left > goal_position
                                   THEN [pushed EXCEPT !.in_padding = TRUE]
                                   ELSE [pushed EXCEPT !.visible_depth = @ + 1],
                          descended |-> TRUE]
                    ELSE descend_children(pushed, goal_position, 0, position, 0)
               ELSE descend_children(self_, goal_position, i + 1, child_right,
                        IF ts_subtree_extra(child) THEN structural_child_index
                        ELSE structural_child_index + 1)

iterator_descend(self_, goal_position) ==
    IF self_.in_padding THEN [iter |-> self_, descended |-> FALSE]
    ELSE descend_children(self_, goal_position, 0, stack_back(self_.stack).position, 0)

\* The loop of iterator_advance.
RECURSIVE advance_entries(_)
advance_entries(self_) ==
    LET left == [self_ EXCEPT
                    !.visible_depth = IF iterator_tree_is_visible(self_) THEN @ - 1 ELSE @,
                    !.stack = stack_pop(@)]
        entry == stack_back(self_.stack)
    IN IF iterator_done(left) THEN left
       ELSE LET parent == stack_back(left.stack).subtree
                child_index == entry.child_index + 1
            IN IF ts_subtree_child_count(parent) > child_index
               THEN LET next_child == parent.children[child_index + 1]
                        pushed == [left EXCEPT !.stack = Append(@,
                                     TreeCursorEntry(next_child,
                                         length_add(entry.position,
                                                    ts_subtree_total_size(entry.subtree)),
                                         child_index,
                                         IF ts_subtree_extra(entry.subtree)
                                         THEN entry.structural_child_index
                                         ELSE entry.structural_child_index + 1))]
                    IN IF iterator_tree_is_visible(pushed)
                       THEN IF ts_subtree_padding(next_child) > 0
                            THEN [pushed EXCEPT !.in_padding = TRUE]
                            ELSE [pushed EXCEPT !.visible_depth = @ + 1]
                       ELSE iterator_descend(pushed, 0).iter
               ELSE advance_entries(left)

iterator_advance(self_) ==
    IF self_.in_padding
    THEN IF iterator_tree_is_visible(self_)
         THEN [self_ EXCEPT !.in_padding = FALSE, !.visible_depth = @ + 1]
         ELSE iterator_descend([self_ EXCEPT !.in_padding = FALSE], 0).iter
    ELSE advance_entries(self_)

\* iterator_compare, for subtrees without external tokens.
iterator_compare_trees(old, new) ==
    IF IsNull(old.tree) /\ IsNull(new.tree) THEN "IteratorMatches"
    ELSE IF IsNull(old.tree) \/ IsNull(new.tree) THEN "IteratorDiffers"
    ELSE IF ts_subtree_symbol(old.tree) # ts_subtree_symbol(new.tree)
    THEN "IteratorDiffers"
    ELSE IF \/ old.start_byte # new.start_byte
            \/ ts_subtree_symbol(old.tree) = ts_builtin_sym_error
            \/ ts_subtree_size(old.tree) # ts_subtree_size(new.tree)
            \/ ts_subtree_parse_state(old.tree) = TS_TREE_STATE_NONE
            \/ ts_subtree_parse_state(new.tree) = TS_TREE_STATE_NONE
            \/ (ts_subtree_parse_state(old.tree) = ERROR_STATE)
                  # (ts_subtree_parse_state(new.tree) = ERROR_STATE)
            \/ ts_subtree_error_cost(old.tree) # ts_subtree_error_cost(new.tree)
            \/ ts_subtree_has_changes(old.tree)
    THEN "IteratorMayDiffer"
    ELSE "IteratorMatches"

iterator_compare(old_iter, new_iter) ==
    iterator_compare_trees(iterator_get_visible_state(old_iter),
                           iterator_get_visible_state(new_iter))

\* The comparison in the loop of ts_subtree_get_changed_ranges and the
\* descent that follows it: the iterators, is_changed and next_position.
compared_may_differ(old_iter, new_iter, old_descended, new_descended) ==
    IF old_descended.descended
    THEN IF ~new_descended.descended
         THEN [old_iter |-> old_descended.iter, new_iter |-> new_descended.iter,
               is_changed |-> TRUE, kept |-> FALSE,
               next_position |-> iterator_end_position(old_descended.iter)]
         ELSE [old_iter |-> old_descended.iter, new_iter |-> new_descended.iter,
               is_changed |-> FALSE, kept |-> TRUE,
               next_position |-> 0]
    ELSE IF new_descended.descended
    THEN [old_iter |-> old_descended.iter, new_iter |-> new_descended.iter,
          is_changed |-> TRUE, kept |-> FALSE,
          next_position |-> iterator_end_position(new_descended.iter)]
    ELSE [old_iter |-> old_descended.iter, new_iter |-> new_descended.iter,
          is_changed |-> FALSE, kept |-> FALSE,
          next_position |-> length_min(iterator_end_position(old_descended.iter),
                                       iterator_end_position(new_descended.iter))]

compared_as(old_iter, new_iter, position, comparison) ==
    IF comparison = "IteratorMatches"
    THEN [old_iter |-> old_iter, new_iter |-> new_iter, is_changed |-> FALSE, kept |-> FALSE,
          next_position |-> iterator_end_position(old_iter)]
    ELSE IF comparison = "IteratorMayDiffer"
    THEN compared_may_differ(old_iter, new_iter,
                             iterator_descend(old_iter, position),
                             iterator_descend(new_iter, position))
    ELSE [old_iter |-> old_iter, new_iter |-> new_iter, is_changed |-> TRUE, kept |-> FALSE,
          next_position |-> length_min(iterator_end_position(old_iter),
                                       iterator_end_position(new_iter))]

compared(w, included_range_differences) ==
    compared_as(w.old_iter, w.new_iter, w.position,
        IF /\ iterator_compare(w.old_iter, w.new_iter) = "IteratorMatches"
           /\ ts_range_array_intersects(included_range_differences,
                                        w.included_range_difference_index,
                                        w.position, iterator_end_position(w.old_iter))
        THEN "IteratorMayDiffer"
        ELSE iterator_compare(w.old_iter, w.new_iter))

\* Both iterators are brought up to next_position, and to the same depth.
RECURSIVE caught_up(_, _)
caught_up(self_, next_position) ==
    IF ~iterator_done(self_) /\ iterator_end_position(self_) <= next_position
    THEN caught_up(iterator_advance(self_), next_position)
    ELSE self_

RECURSIVE ascended_to(_, _)
ascended_to(self_, visible_depth) ==
    IF self_.visible_depth > visible_depth
    THEN ascended_to(iterator_ascend(self_), visible_depth)
    ELSE self_

RECURSIVE difference_index_at(_, _, _)
difference_index_at(included_range_differences, index, position) ==
    IF /\ index < Len(included_range_differences)
       /\ included_range_differences[index + 1].end_byte <= position
    THEN difference_index_at(included_range_differences, index + 1, position)
    ELSE index

\* One turn of the loop, after the comparison c, with the iterators caught
\* up.
changed_ranges_moved(w, c, next_position, old_iter, new_iter, differences) ==
    [old_iter |-> ascended_to(old_iter, new_iter.visible_depth),
     new_iter |-> ascended_to(new_iter,
                              ascended_to(old_iter, new_iter.visible_depth).visible_depth),
     position |-> next_position,
     next_position |-> next_position,
     included_range_difference_index |->
         difference_index_at(differences, w.included_range_difference_index,
                             next_position),
     results |-> IF c.is_changed
                 THEN ts_range_array_add(w.results, w.position, next_position)
                 ELSE w.results]

changed_ranges_next(w, c, next_position, differences) ==
    changed_ranges_moved(w, c, next_position,
                         caught_up(c.old_iter, next_position),
                         caught_up(c.new_iter, next_position), differences)

\* When both iterators descend, next_position keeps the value it had.
subtree_changed_ranges_turn(w, c, differences) ==
    changed_ranges_next(w, c,
                        IF c.kept THEN w.next_position
                        ELSE c.next_position,
                        differences)

RECURSIVE subtree_changed_ranges_loop(_, _)
subtree_changed_ranges_loop(w, differences) ==
    LET turned == subtree_changed_ranges_turn(w, compared(w, differences), differences)
    IN IF iterator_done(turned.old_iter) \/ iterator_done(turned.new_iter)
       THEN turned
       ELSE subtree_changed_ranges_loop(turned, differences)

\* What ts_subtree_get_changed_ranges does before its loop.
changed_ranges_begin(old_tree, new_tree) ==
    LET old_iter == iterator_new(old_tree)
        new_iter == iterator_new(new_tree)
        position == iterator_start_position(old_iter)
        next_position == iterator_start_position(new_iter)
    IN [old_iter |-> old_iter,
        new_iter |-> new_iter,
        included_range_difference_index |-> 0,
        position |-> IF position < next_position THEN next_position ELSE position,
        next_position |-> IF position > next_position THEN position ELSE next_position,
        results |-> IF position < next_position
                    THEN ts_range_array_add(<< >>, position, next_position)
                    ELSE IF position > next_position
                    THEN ts_range_array_add(<< >>, next_position, position)
                    ELSE << >>]

\* And after it.
changed_ranges_end(results, old_size, new_size) ==
    IF old_size < new_size THEN ts_range_array_add(results, old_size, new_size)
    ELSE IF new_size < old_size THEN ts_range_array_add(results, new_size, old_size)
    ELSE results

ts_subtree_get_changed_ranges(old_tree, new_tree, included_range_differences) ==
    changed_ranges_end(
        subtree_changed_ranges_loop(changed_ranges_begin(old_tree, new_tree),
                                    included_range_differences).results,
        ts_subtree_total_size(old_tree), ts_subtree_total_size(new_tree))

ts_tree_get_changed_ranges(old_tree, new_tree, garbage) ==
    ts_subtree_get_changed_ranges(old_tree.root, new_tree.root,
        ts_range_array_get_changed_ranges(old_tree.included_ranges,
                                          new_tree.included_ranges, garbage))

(***************************************************************************)
(* Specification SpecChangedRanges: a text is parsed (the actions of       *)
(* SpecParse, without cancellation), the caller edits the text and the     *)
(* tree (ts_tree_edit), the new text is parsed, and                        *)
(* ts_tree_get_changed_ranges compares the edited tree with the new one.   *)
(* An edit replaces the bytes from start_byte to old_end_byte by at most   *)
(* MaxInsert bytes.  The parses have no old tree and the default included  *)
(* range.                                                                  *)
(***************************************************************************)
MaxInsert == 1

NoChange == [pc |-> "parsed", old_tree |-> NULL_SUBTREE, new_tree |-> NULL_SUBTREE,
             edit |-> [start |-> 0, old_end |-> 0, new_end |-> 0],
             old_text |-> << >>, ranges |-> << >>]

InitChangedRanges ==
    /\ \E text \in Texts(MaxLen) :
          /\ ps_parser = [ts_parser_new([node_count |-> 0, dynamic_precedence |-> 0])
                            EXCEPT !.language = TSLanguage(TREE_SITTER_LANGUAGE_VERSION,
                                                           FALSE)]
          /\ ps_env = [text |-> text, calls |-> MaxCalls - 1, cancels |-> 0, resets |-> 0,
                       result |-> "none", tree |-> NULL_SUBTREE,
                       cancelled_in |-> "none", entered_after |-> "none",
                       outstanding |-> FALSE, init_runs |-> 0,
                       scanner_errors |-> 0, scanner_error |-> FALSE,
                       old_tree |-> NULL_TREE]
    /\ ps_call = IdleCall
    /\ ch_call = NoChange
    /\ StackIdle
    /\ sm_children = << >>
    /\ sm_node = NULL_SUBTREE
    /\ InitHeapVars
    /\ CrIdle
    /\ LexIdle
    /\ LangIdle
    /\ RangeIdle

edited_text(text, start, old_end, inserted) ==
    SubSeq(text, 1, start) \o inserted \o SubSeq(text, old_end + 1, Len(text))

\* ts_tree_edit on the tree the first call returned, and the edit of the
\* text that it describes.
ChEdit ==
    /\ ch_call.pc = "parsed"
    /\ ps_call.pc = "idle"
    /\ ps_env.result = "tree"
    /\ \E start \in 0..Len(ps_env.text), inserted \in Texts(MaxInsert) :
         \E old_end \in start..Len(ps_env.text) :
           LET edit == [start |-> start, old_end |-> old_end,
                        new_end |-> start + Len(inserted)]
           IN /\ ch_call' = [ch_call EXCEPT
                    !.pc = "edited",
                    !.edit = edit,
                    !.old_text = ps_env.text,
                    !.old_tree = ts_tree_edit(ts_tree_new(ps_env.tree, <<DEFAULT_RANGE>>),
                                              edit)]
              /\ ps_env' = [ps_env EXCEPT
                    !.text = edited_text(ps_env.text, start, old_end, inserted),
                    !.calls = MaxCalls - 1,
                    !.result = "none",
                    !.tree = NULL_SUBTREE,
                    !.old_tree = ts_tree_edit(ts_tree_new(ps_env.tree, <<DEFAULT_RANGE>>),
                                              edit)]
    /\ UNCHANGED <<ps_parser, ps_call, sumVars, heapVars, crVars, lexVars, langVars,
                   rangeVars, stackVars>>

ChGetChangedRanges ==
    /\ ch_call.pc = "edited"
    /\ ps_call.pc = "idle"
    /\ ps_env.result = "tree"
    /\ \E garbage \in {DEFAULT_RANGE} :
         ch_call' = [ch_call EXCEPT
             !.pc = "compared",
             !.new_tree = ts_tree_new(ps_env.tree, <<DEFAULT_RANGE>>),
             !.ranges = ts_tree_get_changed_ranges(
                            ch_call.old_tree,
                            ts_tree_new(ps_env.tree, <<DEFAULT_RANGE>>), garbage)]
    /\ UNCHANGED <<parseVars, sumVars, heapVars, crVars, lexVars, langVars, rangeVars, stackVars>>

NextChangedRanges ==
    \/ ParseCall \/ Advance \/ NextVersion \/ Condense
    \/ BalanceTurn \/ ParseReturn \/ ChEdit \/ ChGetChangedRanges

SpecChangedRanges == InitChangedRanges /\ [][NextChangedRanges]_vars

\* C16: the ranges ts_tree_get_changed_ranges returns are coalesced: every
\* range is non-empty, and every range starts strictly after the end of the
\* range before it.
C16_ChangedRangesCoalesced ==
    (ch_call # << >> /\ ch_call.pc = "compared") =>
        \A i \in 1..Len(ch_call.ranges) :
            /\ ch_call.ranges[i].start_byte < ch_call.ranges[i].end_byte
            /\ i > 1 => ch_call.ranges[i].start_byte > ch_call.ranges[i - 1].end_byte

\* A comparison has returned two ranges.
C16_Witness ==
    /\ ch_call # << >>
    /\ ch_call.pc = "compared"
    /\ Len(ch_call.ranges) = 2

(***************************************************************************)
(* The nodes that cover a byte.  A node starts after its padding and ends  *)
(* after its size; depth counts the nodes from the root down.              *)
(***************************************************************************)
RECURSIVE nodes_covering(_, _, _, _)
RECURSIVE children_covering(_, _, _, _, _)
children_covering(children, i, position, byte, depth) ==
    IF i > Len(children) THEN {}
    ELSE nodes_covering(children[i], position, byte, depth)
         \cup children_covering(children, i + 1,
                                position + ts_subtree_total_bytes(children[i]),
                                byte, depth)

nodes_covering(tree, position, byte, depth) ==
    LET start_byte == position + ts_subtree_padding(tree)
        end_byte == start_byte + ts_subtree_size(tree)
    IN (IF ts_subtree_visible(tree) /\ start_byte <= byte /\ byte < end_byte
        THEN {[symbol |-> ts_subtree_symbol(tree), start_byte |-> start_byte,
               end_byte |-> end_byte, depth |-> depth]}
        ELSE {})
       \cup children_covering(tree.children, 1, position, byte, depth + 1)

\* The innermost visible nodes that cover the byte: symbol, start and end.
innermost_covering(tree, byte) ==
    LET nodes == nodes_covering(tree, 0, byte, 0)
    IN {[symbol |-> n.symbol, start_byte |-> n.start_byte, end_byte |-> n.end_byte] :
           n \in {m \in nodes : \A o \in nodes : o.depth <= m.depth}}

in_changed_ranges(ranges, byte) ==
    \E i \in 1..Len(ranges) : ranges[i].start_byte <= byte /\ byte < ranges[i].end_byte

\* The bytes of both trees outside the ranges returned.
unchanged_bytes(c) ==
    {byte \in 0..(ts_subtree_total_bytes(c.old_tree.root)
                  + ts_subtree_total_bytes(c.new_tree.root)) :
        ~in_changed_ranges(c.ranges, byte)}

\* C9: after an edit of the old tree and a parse of the edited text with
\* it, every byte outside the ranges ts_tree_get_changed_ranges returns is
\* covered in both trees by an innermost node of the same symbol, start byte
\* and end byte.
C9_UnchangedBytesSameNodes ==
    (ch_call # << >> /\ ch_call.pc = "compared") =>
        \A byte \in unchanged_bytes(ch_call) :
            innermost_covering(ch_call.old_tree.root, byte)
                = innermost_covering(ch_call.new_tree.root, byte)

(***************************************************************************)
(* The stack driven through its own operations.  The stacks are built with *)
(* ts_stack_push, ts_stack_copy_version, ts_stack_remove_version and       *)
(* ts_stack_merge: some versions over one node (the layer's base), each    *)
(* with a node of its own or on a node it shares with others, and on top a *)
(* subtree pushed into one state, so that the versions stand in the same   *)
(* state at the same position.  Below the base there may be layers of such *)
(* versions, merged into one.                                              *)
(***************************************************************************)
MaxWidth == 9
MaxFree == 2
MaxMid == 2
MaxBelow == 2
MaxInner == 3
MaxPop == 6

TopState == ERROR_STATE + 2
SharedState == TopState + 1

StackLeaf(symbol, padding, size) == ts_subtree_new_leaf(symbol, padding, size, 1, 1, FALSE)
MidLeaf == StackLeaf(sym_x, 0, 1)
ExtraLeaf == [StackLeaf(sym_comment, 0, 1) EXCEPT !.extra = TRUE]
PairNode(dynamic_precedence) == [ts_subtree_new_node(sym_pair, <<StackLeaf(sym_x, 0, 1), StackLeaf(sym_y, 0, 1)>>, 0) EXCEPT !.dynamic_precedence = dynamic_precedence]

\* The subtrees pushed on top: all of two bytes.  The last two are ERROR
\* nodes of the same cost.
TopSubtrees ==
    << StackLeaf(sym_x, 0, 2),
       StackLeaf(sym_x, 1, 1),
       StackLeaf(sym_y, 0, 2),
       PairNode(0),
       PairNode(1),
       ts_subtree_new_error_node(<<StackLeaf(sym_x, 0, 2)>>, FALSE),
       ts_subtree_new_error_node(<<StackLeaf(sym_x, 0, 1), ExtraLeaf>>, FALSE) >>

\* A column is what one version gets over the base: mid 0 is the node the
\* versions share, another mid a node of its own in the state SharedState +
\* mid; top is the subtree pushed on it.  with_extra pushes an extra between.
Column(mid, top, with_extra) == [mid |-> mid, top |-> top, with_extra |-> with_extra]
FanColumn(k) == Column(MaxMid + k, 1, FALSE)
FreeColumns == {Column(mid, top, FALSE) : mid \in 0..MaxMid, top \in 1..Len(TopSubtrees)}

\* The version for one column: a copy of version 0 (on the shared node) or
\* of version 1 (on the base), and the pushes.
st_column(S, column) ==
    LET copied == ts_stack_copy_version(S, IF column.mid = 0 THEN 0 ELSE 1)
        version == ts_stack_version_count(copied) - 1
        middle == IF column.mid = 0 THEN copied
                  ELSE ts_stack_push(copied, version, MidLeaf, FALSE,
                                     SharedState + column.mid)
        extra == IF column.with_extra
                 THEN ts_stack_push(middle, version, ExtraLeaf, FALSE,
                                    ts_stack_state(middle, version))
                 ELSE middle
    IN ts_stack_push(extra, version, TopSubtrees[column.top], FALSE, TopState)

\* (The test of the versions makes S computed before the next column.)
RECURSIVE st_columns(_, _, _)
st_columns(S, columns, k) ==
    IF k > Len(columns) \/ ts_stack_version_count(S) = 0 THEN S
    ELSE st_columns(st_column(S, columns[k]), columns, k + 1)

\* The versions of the columns over the node of version 0, the only
\* version of S.
st_spread(S, columns) ==
    LET based == ts_stack_copy_version(S, 0)
        shared == ts_stack_push(based, 0, MidLeaf, FALSE, SharedState)
        spread == st_columns(shared, columns, 1)
    IN ts_stack_remove_version(ts_stack_remove_version(spread, 1), 0)

\* Version 1 merged into version 0, n times.
RECURSIVE st_merged(_, _)
st_merged(S, n) ==
    IF n = 0 \/ ts_stack_version_count(S) < 2 THEN S
    ELSE st_merged(ts_stack_merge(S, 0, 1), n - 1)

Fan(width, with_extra) == [k \in 1..width |-> [FanColumn(k) EXCEPT !.with_extra = with_extra]]

\* The layers below: for each width a fan of versions, merged into one.
RECURSIVE st_layers(_, _, _, _)
st_layers(S, widths, i, with_extra) ==
    IF i > Len(widths) \/ ts_stack_version_count(S) = 0 THEN S
    ELSE st_layers(st_merged(st_spread(S, Fan(widths[i], with_extra)), widths[i]),
                   widths, i + 1, with_extra)

\* A stack whose base node carries a link without a subtree (the push of
\* ts_parser__handle_error), or the new stack.
st_base(with_null) ==
    LET S == ts_stack_new([node_count |-> 0, dynamic_precedence |-> 0])
    IN IF with_null THEN ts_stack_push(S, 0, NULL_SUBTREE, FALSE, ERROR_STATE) ELSE S

FreeColumnSeqs == [1..MaxFree -> FreeColumns]

Widths(n) == UNION {[1..m -> 1..MaxInner] : m \in 0..n}

NoStackCall == [op |-> "none", before |-> << >>, version1 |-> 0, version2 |-> 0,
                count |-> 0, ok |-> FALSE, slices |-> << >>]

InitStack ==
    /\ \/ \E columns \in FreeColumnSeqs :
             st_stack = st_spread(st_base(FALSE), columns)
       \/ \E width \in 1..MaxWidth, widths \in Widths(MaxBelow),
             with_extra \in BOOLEAN, with_null \in BOOLEAN :
             st_stack = st_spread(st_layers(st_base(with_null), widths, 1, with_extra),
                                  Fan(width, with_extra))
    /\ st_call = NoStackCall
    /\ sm_children = << >>
    /\ sm_node = NULL_SUBTREE
    /\ InitHeapVars
    /\ CrIdle
    /\ ParseIdle
    /\ LexIdle
    /\ LangIdle
    /\ RangeIdle
    /\ ChangeIdle

\* ts_stack_merge of version 1 into version 0.
StMerge ==
    /\ st_call.op # "pop_count"
    /\ ts_stack_version_count(st_stack) >= 2
    /\ st_stack' = ts_stack_merge(st_stack, 0, 1)
    /\ st_call' = [NoStackCall EXCEPT !.op = "merge", !.before = st_stack,
                                      !.version1 = 0, !.version2 = 1,
                                      !.ok = ts_stack_can_merge(st_stack, 0, 1)]
    /\ UNCHANGED <<sumVars, heapVars, crVars, parseVars, lexVars, langVars, rangeVars, changeVars>>

\* ts_stack_pop_count on a version.
StPopCount ==
    /\ st_call.op # "pop_count"
    /\ \E version \in {0}, count \in 0..MaxPop :
          /\ \E pop \in {ts_stack_pop_count(st_stack, version, count)} :
                /\ st_stack' = pop.S
                /\ st_call' = [NoStackCall EXCEPT !.op = "pop_count", !.before = st_stack,
                                                  !.version1 = version, !.count = count,
                                                  !.ok = TRUE, !.slices = pop.slices]
    /\ UNCHANGED <<sumVars, heapVars, crVars, parseVars, lexVars, langVars, rangeVars, changeVars>>

NextStack == StMerge \/ StPopCount

SpecStack == InitStack /\ [][NextStack]_vars

(***************************************************************************)
(* What a merge leaves of the links of the node of version2.               *)
(***************************************************************************)
\* The link of `before` is found among the links of `node` afterwards: a
\* link with an equivalent subtree to the same node, or to a node of the
\* same state, position and error cost that in turn took the links of the
\* link's node.  With `capped`, a node that holds MAX_LINK_COUNT links is
\* excused.
RECURSIVE link_kept(_, _, _, _, _)
link_kept(after, node, link, before, capped) ==
    \/ capped /\ Len(after.nodes[node].links) = MAX_LINK_COUNT
    \/ \E i \in 1..Len(after.nodes[node].links) :
          LET kept == after.nodes[node].links[i]
              kept_node == after.nodes[kept.node]
              link_node == before.nodes[link.node]
          IN /\ stack__subtree_is_equivalent(kept.subtree, link.subtree)
             /\ \/ kept.node = link.node
                \/ /\ kept_node.state = link_node.state
                   /\ kept_node.position = link_node.position
                   /\ kept_node.error_cost = link_node.error_cost
                   /\ \A j \in 1..Len(link_node.links) :
                         link_kept(after, kept.node, link_node.links[j], before, capped)

\* The merge that st_call records succeeded.
merge_succeeded == st_call # << >> /\ st_call.op = "merge" /\ st_call.ok

merge_keeps_links(capped) ==
    LET before == st_call.before
        node1 == before.heads[st_call.version1 + 1].node
        node2 == before.heads[st_call.version2 + 1].node
    IN /\ \A j \in 1..Len(before.nodes[node2].links) :
             link_kept(st_stack, node1, before.nodes[node2].links[j], before, capped)
       /\ [k \in 1..Len(st_stack.heads) |-> st_stack.heads[k].node]
             = RemoveAt([k \in 1..Len(before.heads) |-> before.heads[k].node],
                        st_call.version2 + 1)

\* C21 as claimed: after a successful merge of version2 into version1 every
\* link of the node of version2 is found in the node of version1 (added, or
\* met by an equivalent link), and version2 is removed.
C21_MergeKeepsEveryLink == merge_succeeded => merge_keeps_links(FALSE)

\* C21: after a successful merge of version2 into version1 every link of the
\* node of version2 is found in the node of version1 (added, or met by an
\* equivalent link) unless the node that would take it already holds
\* MAX_LINK_COUNT links, and version2 is removed.
C21_MergeKeepsLinksUnlessFull == merge_succeeded => merge_keeps_links(TRUE)

\* A merge added a link to a node that holds fewer than MAX_LINK_COUNT.
C21_Witness ==
    /\ merge_succeeded
    /\ Len(ts_stack_head_node(st_stack, 0).links)
         = Len(ts_stack_head_node(st_call.before, 0).links) + 1
    /\ Len(ts_stack_head_node(st_stack, 0).links) < MAX_LINK_COUNT

(***************************************************************************)
(* What adding one link does to the links of a node.                       *)
(***************************************************************************)
\* Two subtrees with the same symbol, padding, size, child count and extra
\* bit (no subtree of the model has an external scanner state).
same_subtree_shape(left, right) ==
    IF IsNull(left) \/ IsNull(right) THEN IsNull(left) /\ IsNull(right)
    ELSE /\ ts_subtree_symbol(left) = ts_subtree_symbol(right)
         /\ ts_subtree_padding(left) = ts_subtree_padding(right)
         /\ ts_subtree_size(left) = ts_subtree_size(right)
         /\ ts_subtree_child_count(left) = ts_subtree_child_count(right)
         /\ ts_subtree_extra(left) = ts_subtree_extra(right)

\* The links of a node after `link` was added: the first link to the same
\* node with a subtree of the same shape keeps the subtree of the higher
\* dynamic precedence, and without such a link the new one is appended.
links_with(links, link) ==
    LET same == {i \in 1..Len(links) :
                    /\ links[i].node = link.node
                    /\ same_subtree_shape(links[i].subtree, link.subtree)}
        first == CHOOSE i \in same : \A other \in same : i <= other
    IN IF same = {} THEN Append(links, link)
       ELSE IF ts_subtree_dynamic_precedence(link.subtree)
                 > ts_subtree_dynamic_precedence(links[first].subtree)
       THEN [links EXCEPT ![first].subtree = link.subtree]
       ELSE links

\* A merge of a version whose node has one link: one call of
\* stack_node_add_link on the node of version1.
merged_one_link ==
    /\ merge_succeeded
    /\ Len(ts_stack_head_node(st_call.before, st_call.version2).links) = 1

\* C22: a link added to a node is taken for a duplicate of an existing link
\* only when both lead to the same node and their subtrees have the same
\* symbol, padding, size, child count and extra bit; the node then keeps the
\* subtree of the higher dynamic precedence, and in every other case the
\* link is added as a separate link.
C22_DuplicateOnlyWhenEquivalent ==
    merged_one_link =>
        ts_stack_head_node(st_stack, st_call.version1).links
          = links_with(ts_stack_head_node(st_call.before, st_call.version1).links,
                       ts_stack_head_node(st_call.before, st_call.version2).links[1])

\* Two error subtrees of different child counts on links to the same node:
\* the merge of the second into the first added no link.
C22_ErrorSubtreesTakenForEqual ==
    /\ merged_one_link
    /\ LET links1 == ts_stack_head_node(st_call.before, st_call.version1).links
           link == ts_stack_head_node(st_call.before, st_call.version2).links[1]
       IN /\ Len(links1) = 1
          /\ links1[1].node = link.node
          /\ ts_subtree_is_error(link.subtree)
          /\ ts_subtree_child_count(links1[1].subtree)
               # ts_subtree_child_count(link.subtree)
          /\ Len(ts_stack_head_node(st_stack, st_call.version1).links) = 1

(***************************************************************************)
(* The walks of pop_count, told without iterators.  A walk goes from a     *)
(* node over one link after the other; a link with an extra subtree does   *)
(* not count, every other link counts one (a link without a subtree too,   *)
(* which adds no subtree).  A walk of n counted links ends at the node it  *)
(* reached, with the subtrees it passed in stack order.                    *)
(***************************************************************************)
RECURSIVE walks_from(_, _, _, _)
RECURSIVE walks_over(_, _, _, _, _)
walks_from(S, node, n, subtrees) ==
    IF n = 0 THEN << [node |-> node, subtrees |-> subtrees] >>
    ELSE walks_over(S, node, n, subtrees, 1)

\* The walks over the j-th link of the node and the links behind it.
walks_over(S, node, n, subtrees, j) ==
    IF j > Len(S.nodes[node].links) THEN << >>
    ELSE LET link == S.nodes[node].links[j]
         IN (IF IsNull(link.subtree)
             THEN walks_from(S, link.node, n - 1, subtrees)
             ELSE walks_from(S, link.node,
                             IF ts_subtree_extra(link.subtree) THEN n ELSE n - 1,
                             <<link.subtree>> \o subtrees))
            \o walks_over(S, node, n, subtrees, j + 1)

\* The number of walks of at most n counted links that cannot go on: they
\* counted n links or stand on the node without links.
RECURSIVE walk_ends(_, _, _)
RECURSIVE walk_ends_over(_, _, _, _)
walk_ends(S, node, n) ==
    IF n = 0 \/ Len(S.nodes[node].links) = 0 THEN 1
    ELSE walk_ends_over(S, node, n, 1)

walk_ends_over(S, node, n, j) ==
    IF j > Len(S.nodes[node].links) THEN 0
    ELSE LET link == S.nodes[node].links[j]
         IN walk_ends(S, link.node,
                      IF ~IsNull(link.subtree) /\ ts_subtree_extra(link.subtree)
                      THEN n ELSE n - 1)
            + walk_ends_over(S, node, n, j + 1)

occurrences(seq, e) == Cardinality({k \in 1..Len(seq) : seq[k] = e})
sub_bag(left, right) ==
    \A k \in 1..Len(left) : occurrences(left, left[k]) <= occurrences(right, left[k])
same_bag(left, right) == sub_bag(left, right) /\ sub_bag(right, left)

\* The pop_count that st_call records, its slices told by the node their
\* version stands on, and the walks of the stack it found.
popped == st_call # << >> /\ st_call.op = "pop_count"
popped_slices ==
    [k \in 1..Len(st_call.slices) |->
        [node |-> st_stack.heads[st_call.slices[k].version + 1].node,
         subtrees |-> st_call.slices[k].subtrees]]
popped_walks ==
    walks_from(st_call.before, st_call.before.heads[st_call.version1 + 1].node,
               st_call.count, << >>)
counted_subtrees(subtrees) ==
    Cardinality({k \in 1..Len(subtrees) : ~ts_subtree_extra(subtrees[k])})

\* C23 as claimed: pop_count(version, n) returns one slice for every walk of
\* n counted links from the head of the version, and each slice holds the
\* subtrees of its walk in stack order, n of them not extra.
C23_SliceForEveryWalk ==
    popped =>
        /\ same_bag(popped_slices, popped_walks)
        /\ \A k \in 1..Len(popped_slices) :
              counted_subtrees(popped_slices[k].subtrees) = st_call.count

\* C23: every slice of pop_count(version, n) is a walk of n counted links
\* from the head of the version and holds the subtrees of its walk in stack
\* order, as many of them not extra as the walk has counted links with a
\* subtree; and when the walks that cannot go on are no more than
\* MAX_ITERATOR_COUNT, there is one slice for every walk.
C23_SlicesAreWalksUpToIteratorCount ==
    popped =>
        /\ sub_bag(popped_slices, popped_walks)
        /\ walk_ends(st_call.before, st_call.before.heads[st_call.version1 + 1].node,
                     st_call.count) <= MAX_ITERATOR_COUNT
             => same_bag(popped_slices, popped_walks)
        /\ \A k \in 1..Len(popped_slices) :
              counted_subtrees(popped_slices[k].subtrees) <= st_call.count

\* A pop of two or more links returned several slices, one of them with an
\* extra subtree beside the counted ones.
C23_Witness ==
    /\ popped
    /\ st_call.count >= 2
    /\ Len(popped_slices) >= 2
    /\ \E k \in 1..Len(popped_slices) :
          /\ Len(popped_slices[k].subtrees) > st_call.count
          /\ counted_subtrees(popped_slices[k].subtrees) = st_call.count

\* A pop over more walks than MAX_ITERATOR_COUNT.
C23_MoreWalksThanIterators ==
    popped /\ Len(popped_walks) > MAX_ITERATOR_COUNT /\ Len(popped_slices) < Len(popped_walks)

(***************************************************************************)
(* The versions of a stack and their lookaheads.  A stack of MaxVersions   *)
(* versions, each on a node of its own, takes calls of ts_stack_pause,     *)
(* ts_stack_resume, ts_stack_remove_version, ts_stack_renumber_version and *)
(* ts_stack_swap_versions.  A version is known by its node; st_call keeps  *)
(* the last call, what ts_stack_resume returned, and for each node whose   *)
(* version is paused the lookahead and the index it was paused with.       *)
(***************************************************************************)
MaxVersions == 3

Lookaheads == {StackLeaf(sym_x, 0, 1), StackLeaf(sym_y, 0, 1)}

NotGiven == [none |-> TRUE]

\* The stack of ts_stack_new with n versions: each further version is a copy
\* of version 0 with a leaf pushed in a state of its own.
RECURSIVE versions_stack(_)
versions_stack(n) ==
    IF n = 1
    THEN ts_stack_new([node_count |-> 0, dynamic_precedence |-> 0])
    ELSE ts_stack_push(ts_stack_copy_version(versions_stack(n - 1), 0), n - 1,
                       MidLeaf, FALSE, SharedState + n)

NoVersionCall == [op |-> "none", version1 |-> 0, version2 |-> 0,
                  returned |-> NULL_SUBTREE, given |-> NotGiven]

InitVersions ==
    /\ \E n \in 2..MaxVersions :
          /\ st_stack = versions_stack(n)
          /\ st_call = [last |-> NoVersionCall,
                        given |-> [node \in 1..Len(versions_stack(n).nodes) |-> NotGiven]]
    /\ sm_children = << >>
    /\ sm_node = NULL_SUBTREE
    /\ InitHeapVars
    /\ CrIdle
    /\ ParseIdle
    /\ LexIdle
    /\ LangIdle
    /\ RangeIdle
    /\ ChangeIdle

VersionIndexes == 0..(ts_stack_version_count(st_stack) - 1)

\* ts_stack_pause of an active version with a lookahead.
VsPause ==
    /\ \E version \in VersionIndexes, lookahead \in Lookaheads :
          /\ ts_stack_is_active(st_stack, version)
          /\ st_stack' = ts_stack_pause(st_stack, version, lookahead)
          /\ st_call' = [last |-> [NoVersionCall EXCEPT
                                      !.op = "pause", !.version1 = version,
                                      !.given = [lookahead |-> lookahead,
                                                 version |-> version]],
                         given |-> [st_call.given EXCEPT
                                       ![st_stack.heads[version + 1].node] =
                                           [lookahead |-> lookahead,
                                            version |-> version]]]
    /\ UNCHANGED <<sumVars, heapVars, crVars, parseVars, lexVars, langVars, rangeVars, changeVars>>

\* ts_stack_resume of a paused version; it returns the lookahead the head
\* held.
VsResume ==
    /\ \E version \in VersionIndexes :
          /\ ts_stack_is_paused(st_stack, version)
          /\ st_stack' = ts_stack_resume(st_stack, version)
          /\ st_call' = [last |-> [NoVersionCall EXCEPT
                                      !.op = "resume", !.version1 = version,
                                      !.returned =
                                          st_stack.heads[version + 1].lookahead_when_paused,
                                      !.given =
                                          st_call.given[st_stack.heads[version + 1].node]],
                         given |-> [st_call.given EXCEPT
                                       ![st_stack.heads[version + 1].node] = NotGiven]]
    /\ UNCHANGED <<sumVars, heapVars, crVars, parseVars, lexVars, langVars, rangeVars, changeVars>>

VsRemove ==
    /\ ts_stack_version_count(st_stack) > 1
    /\ \E version \in VersionIndexes :
          /\ st_stack' = ts_stack_remove_version(st_stack, version)
          /\ st_call' = [last |-> [NoVersionCall EXCEPT !.op = "remove",
                                                        !.version1 = version],
                         given |-> [st_call.given EXCEPT
                                       ![st_stack.heads[version + 1].node] = NotGiven]]
    /\ UNCHANGED <<sumVars, heapVars, crVars, parseVars, lexVars, langVars, rangeVars, changeVars>>

\* ts_stack_renumber_version(v1, v2): v2 is before v1.
VsRenumber ==
    /\ \E v1 \in VersionIndexes, v2 \in VersionIndexes :
          /\ v2 < v1
          /\ st_stack' = ts_stack_renumber_version(st_stack, v1, v2)
          /\ st_call' = [last |-> [NoVersionCall EXCEPT !.op = "renumber",
                                                        !.version1 = v1,
                                                        !.version2 = v2],
                         given |-> [st_call.given EXCEPT
                                       ![st_stack.heads[v2 + 1].node] = NotGiven]]
    /\ UNCHANGED <<sumVars, heapVars, crVars, parseVars, lexVars, langVars, rangeVars, changeVars>>

VsSwap ==
    /\ \E v1 \in VersionIndexes, v2 \in VersionIndexes :
          /\ v1 # v2
          /\ st_stack' = ts_stack_swap_versions(st_stack, v1, v2)
          /\ st_call' = [st_call EXCEPT
                            !.last = [NoVersionCall EXCEPT !.op = "swap",
                                                          !.version1 = v1,
                                                          !.version2 = v2]]
    /\ UNCHANGED <<sumVars, heapVars, crVars, parseVars, lexVars, langVars, rangeVars, changeVars>>

NextVersions == VsPause \/ VsResume \/ VsRemove \/ VsRenumber \/ VsSwap

SpecVersions == InitVersions /\ [][NextVersions]_vars

\* The head that the last call of ts_stack_pause or ts_stack_resume was
\* about, and what was given when its version was paused.
called_head == st_stack.heads[st_call.last.version1 + 1]
given_to_called == st_call.last.given

\* C27: ts_stack_pause stores the given lookahead with the version, and the
\* later ts_stack_resume of that version returns exactly that lookahead,
\* sets the version Active and clears the stored lookahead, wherever other
\* calls have moved the version in between.
C27_ResumeReturnsPausedLookahead ==
    /\ st_call.last.op = "pause" =>
          /\ called_head.status = "Paused"
          /\ called_head.lookahead_when_paused = given_to_called.lookahead
    /\ st_call.last.op = "resume" =>
          /\ given_to_called # NotGiven
          /\ st_call.last.returned = given_to_called.lookahead
          /\ called_head.status = "Active"
          /\ called_head.lookahead_when_paused = NULL_SUBTREE

\* A version was resumed at another index than it was paused at, while
\* another version is paused with another lookahead.
C27_Witness ==
    /\ st_call.last.op = "resume"
    /\ given_to_called.version # st_call.last.version1
    /\ st_call.last.returned = given_to_called.lookahead
    /\ \E version \in VersionIndexes :
          /\ ts_stack_is_paused(st_stack, version)
          /\ st_stack.heads[version + 1].lookahead_when_paused # st_call.last.returned

\* What the merges of the calls of ts_parser__handle_error returned in the
\* last step of the parse.
merges == ps_call.merges

\* C33: in ts_parser__handle_error, after the discontinuity has been pushed
\* onto the erroring version and onto every version the potential
\* reductions created, every merge of a created version into the erroring
\* version succeeds.
C33_CreatedVersionsMerge ==
    \A i \in 1..Len(merges) :
        \A k \in 1..Len(merges[i].did_merge) : merges[i].did_merge[k]

\* The potential reductions of a call created a version, which was merged.
C33_Witness ==
    \E i \in 1..Len(merges) :
        /\ merges[i].version_count > merges[i].previous_version_count
        /\ Len(merges[i].did_merge) = merges[i].version_count - merges[i].previous_version_count
        /\ merges[i].did_merge[1]

(***************************************************************************)
(* Specification SpecReuse: ts_parser__reuse_node on the trees of earlier  *)
(* parses.  The old tree is a source_file of two subtrees, among them      *)
(* edited ones, ERROR nodes, missing leaves, fragile nodes and tokens of   *)
(* an external scanner; the included ranges have changed in some places.   *)
(* The one version of the stack has parsed the bytes before its position   *)
(* and holds its last external token.  ps_call holds the place of the      *)
(* caller ts_parser__advance and what the last call took and returned.     *)
(***************************************************************************)
ScannerStates == {<<1>>, <<2>>}

\* ts_parser__lex where the external scanner has found the token: the leaf
\* has external tokens and keeps the state the scanner serialized.
external_token_leaf(leaf, scanner_state) ==
    [leaf EXCEPT !.has_external_tokens = TRUE, !.external_scanner_state = scanner_state]

\* ts_subtree_edit marks the subtrees an edit touches.
edited_subtree(tree) == [tree EXCEPT !.has_changes = TRUE]

leaf_x == ts_subtree_new_leaf(sym_x, 0, 1, 1, 1, FALSE)
leaf_y == ts_subtree_new_leaf(sym_y, 0, 1, 1, 2, FALSE)
pair_of(x, y) == ts_subtree_new_node(sym_pair, <<x, y>>, 0)

OldSubtrees ==
    {leaf_x, leaf_y, pair_of(leaf_x, leaf_y),
     edited_subtree(pair_of(leaf_x, edited_subtree(leaf_y))),
     ts_subtree_new_error_node(<<leaf_x>>, FALSE),
     ts_subtree_new_missing_leaf(sym_x, 0, 1),
     [pair_of(leaf_x, leaf_y) EXCEPT !.fragile_left = TRUE, !.fragile_right = TRUE],
     pair_of(external_token_leaf(leaf_x, <<1>>), leaf_y)}
    \cup {external_token_leaf(leaf_x, scanner_state) : scanner_state \in ScannerStates}

OldRoots ==
    {ts_subtree_new_node(sym_source_file, <<first, second>>, 0) :
         first \in OldSubtrees, second \in OldSubtrees}

RangeDifferences ==
    {<< >>, <<TSRange(0, 1)>>, <<TSRange(1, 2)>>, <<TSRange(2, 4)>>,
     <<TSRange(0, 1), TSRange(3, 4)>>}

LastExternalTokens ==
    {NULL_SUBTREE}
    \cup {external_token_leaf(leaf_x, scanner_state) : scanner_state \in ScannerStates}

\* The stack of a version that has parsed the bytes before position and is
\* in state there.
parsed_stack(position, state, last_external_token) ==
    LET S == ts_stack_new([node_count |-> 0, dynamic_precedence |-> 0])
        parsed == IF position = 0 THEN S
                  ELSE ts_stack_push(S, 0,
                           ts_subtree_new_leaf(sym_x, 0, position, 1, 1, FALSE),
                           FALSE, state)
    IN ts_stack_set_last_external_token(parsed, 0, last_external_token)

NoReuseCall == [pc |-> "reuse", position |-> 0, state |-> 0,
                last_external_token |-> NULL_SUBTREE, lookahead |-> NULL_SUBTREE]

InitReuse ==
    /\ sm_children = << >>
    /\ sm_node = NULL_SUBTREE
    /\ InitHeapVars /\ CrIdle /\ LexIdle /\ LangIdle
    /\ RangeIdle /\ ChangeIdle /\ StackIdle
    /\ ps_env = << >>
    /\ ps_call = NoReuseCall
    /\ \E root \in OldRoots, differences \in RangeDifferences,
          last_external_token \in LastExternalTokens, state \in {1, 2} :
       \E position \in 0..ts_subtree_total_bytes(root.children[1]) :
          /\ position = 0 => state = 1
          /\ ps_parser =
                 [parse_with_old_tree(ts_parser_new([node_count |-> 0,
                                                     dynamic_precedence |-> 0]),
                                      ts_tree_new(root, <<DEFAULT_RANGE>>))
                  EXCEPT !.stack = parsed_stack(position, state, last_external_token),
                         !.included_range_differences = differences,
                         !.included_range_difference_index =
                             difference_index_past(differences, 0, position)]

\* ts_parser__advance calls ts_parser__reuse_node for its version.
ReuseNode ==
    /\ ps_call.pc = "reuse"
    /\ \E reused \in {ts_parser__reuse_node(
                          ps_parser, 0, ts_stack_state(ps_parser.stack, 0),
                          ts_stack_position(ps_parser.stack, 0),
                          ts_stack_last_external_token(ps_parser.stack, 0))} :
          /\ ps_parser' = reused.P
          /\ ps_call' = [pc |-> "reused",
                         position |-> ts_stack_position(ps_parser.stack, 0),
                         state |-> reused.state,
                         last_external_token |->
                             ts_stack_last_external_token(ps_parser.stack, 0),
                         lookahead |-> reused.lookahead]
    /\ UNCHANGED <<sumVars, heapVars, crVars, lexVars, langVars, rangeVars,
                   changeVars, stackVars, ps_env>>

\* ts_parser__advance shifts the node it reuses and goes past it in the old
\* tree; ts_parser_parse then moves the index of the differences.
ReuseShift ==
    /\ ps_call.pc = "reused"
    /\ ~IsNull(ps_call.lookahead)
    /\ \E table_entry \in {ts_language_table_entry(
                               ps_call.state, ts_subtree_leaf_symbol(ps_call.lookahead))} :
          /\ table_entry.action_count > 0
          /\ table_entry.actions[1].type_ = "Shift"
          /\ \E shifted \in {advance_shift(ps_parser,
                                 [version |-> 0, state |-> ps_call.state,
                                  lookahead |-> ps_call.lookahead, did_reuse |-> TRUE,
                                  table_entry |-> table_entry],
                                 table_entry.actions[1])} :
                ps_parser' = [shifted EXCEPT !.included_range_difference_index =
                                 difference_index_past(
                                     shifted.included_range_differences, @,
                                     ts_stack_position(shifted.stack, 0))]
    /\ ps_call' = [ps_call EXCEPT !.pc = "reuse"]
    /\ UNCHANGED <<sumVars, heapVars, crVars, lexVars, langVars, rangeVars,
                   changeVars, stackVars, ps_env>>

NextReuse == ReuseNode \/ ReuseShift

SpecReuse == InitReuse /\ [][NextReuse]_vars

\* The node the last call returned, where it begins and ends, and the
\* entries of the reusable node that lead to it from the root.
reused_node == ps_call.lookahead
reused_end == ps_call.position + ts_subtree_total_bytes(reused_node)
reused_path == ps_parser.reusable_node.stack

RECURSIVE leaves_of(_)
RECURSIVE leaves_of_children(_, _)
leaves_of_children(children, n) ==
    IF n = 0 THEN << >>
    ELSE leaves_of_children(children, n - 1) \o leaves_of(children[n])

leaves_of(tree) ==
    IF Len(tree.children) = 0 THEN <<tree>>
    ELSE leaves_of_children(tree.children, Len(tree.children))

\* The leaves of the old tree that come before the node a path leads to.
RECURSIVE leaves_before(_, _)
leaves_before(path, depth) ==
    IF depth < 2 THEN << >>
    ELSE leaves_before(path, depth - 1)
         \o leaves_of_children(path[depth - 1].tree.children, path[depth].child_index)

\* The state the external scanner had in the old parse where the node of
\* the path begins: the one of the last external token before the node.
prior_scanner_state(path) ==
    LET is_external(leaf) == leaf.has_external_tokens
        tokens == SelectSeq(leaves_before(path, Len(path)), is_external)
    IN IF Len(tokens) = 0 THEN << >> ELSE tokens[Len(tokens)].external_scanner_state

\* C28: a subtree of the previous tree is reused as lookahead only if it has
\* no changes, is no ERROR, is not missing, is not fragile, overlaps no
\* difference of the included ranges, and the external scanner's state
\* before it in the old tree is that of the version's last external token.
C28_ReusedOnlyIfUnaffected ==
    (ps_call.pc = "reused" /\ ~IsNull(reused_node)) =>
        /\ ~reused_node.has_changes
        /\ reused_node.symbol # ts_builtin_sym_error
        /\ ~reused_node.is_missing
        /\ ~reused_node.fragile_left /\ ~reused_node.fragile_right
        /\ \A i \in 1..Len(ps_parser.included_range_differences) :
              ~(/\ ps_parser.included_range_differences[i].start_byte < reused_end
                /\ ps_parser.included_range_differences[i].end_byte > ps_call.position)
        /\ reused_path[Len(reused_path)].tree = reused_node
        /\ prior_scanner_state(reused_path)
             = ts_subtree_external_scanner_state(ps_call.last_external_token)

\* A node was reused behind an external token of the old tree while the
\* included ranges differ somewhere else.
C28_Witness ==
    /\ ps_call.pc = "reused"
    /\ ~IsNull(reused_node)
    /\ prior_scanner_state(reused_path) # << >>
    /\ Len(ps_parser.included_range_differences) > 0

(***************************************************************************)
(* Specification SpecCompare: ts_parser__compare_versions on the error     *)
(* statuses of two versions.  The costs and node counts go from the ones   *)
(* around MAX_COST_DIFFERENCE to the ones of long texts with many errors,  *)
(* whose product does not fit in 32 bits.  ps_env holds the two statuses,  *)
(* ps_call what the call returned.                                         *)
(***************************************************************************)
Costs == {0, 100, 500, 65536, 65636, 1000000}
NodeCounts == {0, 17, 18, 65535, 999999}

ErrorStatuses ==
    [cost : Costs, node_count : NodeCounts, dynamic_precedence : {0, 1},
     is_in_error : BOOLEAN]

\* What a call of ts_parser__compare_versions can do: a product that does
\* not fit in 32 bits wraps around in a build without overflow checks and
\* panics in a build with them.
compare_versions_outcomes(a, b) ==
    {ts_parser__compare_versions(a, b)}
    \cup (IF \/ /\ a.is_in_error = b.is_in_error
                /\ a.cost < b.cost
                /\ u32_mul_overflows(b.cost - a.cost, 1 + a.node_count)
             \/ /\ a.is_in_error = b.is_in_error
                /\ b.cost < a.cost
                /\ u32_mul_overflows(a.cost - b.cost, 1 + b.node_count)
          THEN {"panic"} ELSE {})

InitCompare ==
    /\ sm_children = << >>
    /\ sm_node = NULL_SUBTREE
    /\ InitHeapVars /\ CrIdle /\ LexIdle /\ LangIdle
    /\ RangeIdle /\ ChangeIdle /\ StackIdle
    /\ ps_parser = << >>
    /\ ps_call = [pc |-> "compare", comparison |-> "None"]
    /\ \E a \in ErrorStatuses, b \in ErrorStatuses : ps_env = [a |-> a, b |-> b]

CompareVersions ==
    /\ ps_call.pc = "compare"
    /\ \E comparison \in compare_versions_outcomes(ps_env.a, ps_env.b) :
          ps_call' = [pc |-> "compared", comparison |-> comparison]
    /\ UNCHANGED <<sumVars, heapVars, crVars, lexVars, langVars, rangeVars,
                   changeVars, stackVars, ps_parser, ps_env>>

NextCompare == CompareVersions

SpecCompare == InitCompare /\ [][NextCompare]_vars

\* Is the product of the numbers x and y above limit?
product_exceeds(x, y, limit) == x > 0 /\ y > limit \div x

\* C30: of two versions with the same error state the cheaper one is taken
\* exactly when the product of the cost difference and 1 + its node count,
\* as a product of numbers, is above MAX_COST_DIFFERENCE, and preferred
\* otherwise; the product never wraps around 32 bits.
C30_TakenByTheProductOfNumbers ==
    (ps_call.pc = "compared" /\ ps_env.a.is_in_error = ps_env.b.is_in_error) =>
        /\ ps_env.a.cost < ps_env.b.cost =>
              ps_call.comparison =
                  IF product_exceeds(ps_env.b.cost - ps_env.a.cost,
                                     1 + ps_env.a.node_count, MAX_COST_DIFFERENCE)
                  THEN "TakeLeft" ELSE "PreferLeft"
        /\ ps_env.b.cost < ps_env.a.cost =>
              ps_call.comparison =
                  IF product_exceeds(ps_env.a.cost - ps_env.b.cost,
                                     1 + ps_env.b.node_count, MAX_COST_DIFFERENCE)
                  THEN "TakeRight" ELSE "PreferRight"

(***************************************************************************)
(* Specification SpecSubtreeCompare: ts_subtree_compare on two trees, as   *)
(* ts_parser__select_tree calls it.  The trees are leaves, nodes of one or *)
(* two leaves, and pairs of those.  ps_env holds the two trees, ps_call    *)
(* what the call returned.                                                 *)
(***************************************************************************)
ComparedLeaves == {leaf_x, leaf_y}

nodes_over(symbols, children) ==
    {ts_subtree_new_node(symbol, <<child>>, 0) : symbol \in symbols, child \in children}
    \cup {ts_subtree_new_node(symbol, <<first, second>>, 0) :
              symbol \in symbols, first \in children, second \in children}

ComparedNodes == nodes_over({sym_pair, aux_sym_rep}, ComparedLeaves)

ComparedTrees ==
    ComparedLeaves \cup ComparedNodes
    \cup {ts_subtree_new_node(sym_source_file, <<first, second>>, 0) :
              first \in ComparedLeaves \cup ComparedNodes,
              second \in ComparedLeaves \cup ComparedNodes}

InitSubtreeCompare ==
    /\ sm_children = << >>
    /\ sm_node = NULL_SUBTREE
    /\ InitHeapVars /\ CrIdle /\ LexIdle /\ LangIdle
    /\ RangeIdle /\ ChangeIdle /\ StackIdle
    /\ ps_parser = << >>
    /\ ps_call = [pc |-> "compare", result |-> 0]
    /\ \E left \in ComparedTrees, right \in ComparedTrees :
          ps_env = [left |-> left, right |-> right]

SubtreeCompare ==
    /\ ps_call.pc = "compare"
    /\ ps_call' = [pc |-> "compared",
                   result |-> ts_subtree_compare(ps_env.left, ps_env.right)]
    /\ UNCHANGED <<sumVars, heapVars, crVars, lexVars, langVars, rangeVars,
                   changeVars, stackVars, ps_parser, ps_env>>

NextSubtreeCompare == SubtreeCompare

SpecSubtreeCompare == InitSubtreeCompare /\ [][NextSubtreeCompare]_vars

\* The order of the claim as it is worded: by symbol, by child count, then
\* by the pairs of children from the rightmost to the leftmost.
RECURSIVE rightmost_first(_, _)
RECURSIVE rightmost_first_children(_, _, _)
rightmost_first_children(left, right, i) ==
    IF i = 0 THEN 0
    ELSE IF rightmost_first(left.children[i], right.children[i]) # 0
    THEN rightmost_first(left.children[i], right.children[i])
    ELSE rightmost_first_children(left, right, i - 1)

rightmost_first(left, right) ==
    IF left.symbol < right.symbol THEN 0 - 1
    ELSE IF right.symbol < left.symbol THEN 1
    ELSE IF Len(left.children) < Len(right.children) THEN 0 - 1
    ELSE IF Len(right.children) < Len(left.children) THEN 1
    ELSE rightmost_first_children(left, right, Len(left.children))

\* C31 as it is worded: the children are compared from the rightmost to
\* the leftmost.
C31_ChildrenFromTheRight ==
    ps_call.pc = "compared" => ps_call.result = rightmost_first(ps_env.left, ps_env.right)

\* The symbol and the child count of every node of a tree, a node before
\* its children and the children from the leftmost to the rightmost.
RECURSIVE preorder_keys(_)
RECURSIVE preorder_keys_of_children(_, _)
preorder_keys_of_children(children, n) ==
    IF n = 0 THEN << >>
    ELSE preorder_keys_of_children(children, n - 1) \o preorder_keys(children[n])

preorder_keys(tree) ==
    <<[symbol |-> tree.symbol, child_count |-> Len(tree.children)]>>
    \o preorder_keys_of_children(tree.children, Len(tree.children))

\* The order of two lists of keys by the first place where they differ;
\* lists of trees that differ do so before either one ends.
order_of_keys(left, right) ==
    LET differing == {i \in 1..Len(left) : i <= Len(right) /\ left[i] # right[i]}
        first == CHOOSE i \in differing : \A j \in differing : i <= j
    IN IF differing = {} THEN 0
       ELSE IF left[first].symbol < right[first].symbol THEN 0 - 1
       ELSE IF right[first].symbol < left[first].symbol THEN 1
       ELSE IF left[first].child_count < right[first].child_count THEN 0 - 1
       ELSE 1

\* C31: ts_subtree_compare orders two trees by the first node, a node
\* before its children and the children from the leftmost to the rightmost,
\* at which the symbols or else the child counts differ (the smaller symbol
\* first, then the smaller child count); it returns 0 only when the trees
\* have equal symbols and child counts at every node.
C31_ChildrenFromTheLeft ==
    ps_call.pc = "compared" =>
        /\ ps_call.result = order_of_keys(preorder_keys(ps_env.left),
                                          preorder_keys(ps_env.right))
        /\ ps_call.result = 0 <=> preorder_keys(ps_env.left) = preorder_keys(ps_env.right)

\* Two trees whose first children and whose last children differ in
\* opposite directions were compared.
C31_Witness ==
    /\ ps_call.pc = "compared"
    /\ Len(ps_env.left.children) = 2
    /\ Len(ps_env.right.children) = 2
    /\ ps_env.left.symbol = ps_env.right.symbol
    /\ ts_subtree_compare(ps_env.left.children[1], ps_env.right.children[1]) = 0 - 1
    /\ ts_subtree_compare(ps_env.left.children[2], ps_env.right.children[2]) = 1
    /\ ps_call.result = 0 - 1

(***************************************************************************)
(* Specification SpecSummary: ts_stack_record_summary on stacks of two     *)
(* versions over one base.  Each version has shifted MaxSteps tokens of   *)
(* one byte, extras among them (an extra leaves the state as it is);       *)
(* versions in the same state are merged, which gives the head several     *)
(* ways down.  st_call holds the last call.                                 *)
(***************************************************************************)
MaxSteps == 3
MaxDepth == 3

\* A step is the state a token is shifted into, or 0 for an extra.
SummarySteps == {0, SharedState, TopState}
SummaryColumns == [1..MaxSteps -> SummarySteps]

RECURSIVE su_shifted(_, _, _, _)
su_shifted(S, version, steps, k) ==
    IF k > Len(steps) THEN S
    ELSE su_shifted(IF steps[k] = 0
                    THEN ts_stack_push(S, version, ExtraLeaf, FALSE,
                                       ts_stack_state(S, version))
                    ELSE ts_stack_push(S, version, MidLeaf, FALSE, steps[k]),
                    version, steps, k + 1)

\* Version 0 and a copy of it, each with its steps.
su_stack(first, second) ==
    LET S == ts_stack_new([node_count |-> 0, dynamic_precedence |-> 0])
    IN su_shifted(su_shifted(ts_stack_copy_version(S, 0), 0, first, 1), 1, second, 1)

NoSummaryCall == [op |-> "none", version |-> 0, max_depth |-> 0]

InitSummary ==
    /\ \E first \in SummaryColumns, second \in SummaryColumns :
          st_stack = su_stack(first, second)
    /\ st_call = NoSummaryCall
    /\ sm_children = << >>
    /\ sm_node = NULL_SUBTREE
    /\ InitHeapVars
    /\ CrIdle
    /\ ParseIdle
    /\ LexIdle
    /\ LangIdle
    /\ RangeIdle
    /\ ChangeIdle

\* ts_stack_merge of version 1 into version 0.
SuMerge ==
    /\ st_call.op = "none"
    /\ ts_stack_version_count(st_stack) >= 2
    /\ st_stack' = ts_stack_merge(st_stack, 0, 1)
    /\ st_call' = [NoSummaryCall EXCEPT !.op = "merge"]
    /\ UNCHANGED <<sumVars, heapVars, crVars, parseVars, lexVars, langVars, rangeVars, changeVars>>

\* ts_stack_record_summary of a version.
SuRecordSummary ==
    /\ st_call.op # "record_summary"
    /\ \E version \in 0..(ts_stack_version_count(st_stack) - 1), max_depth \in 0..MaxDepth :
          /\ st_stack' = ts_stack_record_summary(st_stack, version, max_depth)
          /\ st_call' = [op |-> "record_summary", version |-> version,
                         max_depth |-> max_depth]
    /\ UNCHANGED <<sumVars, heapVars, crVars, parseVars, lexVars, langVars, rangeVars, changeVars>>

NextSummary == SuMerge \/ SuRecordSummary

SpecSummary == InitSummary /\ [][NextSummary]_vars

\* The entries of the summary the last call recorded.
recorded_summary == st_stack.heads[st_call.version + 1].summary.entries

\* C32: the summary ts_stack_record_summary records holds only entries of
\* a depth up to max_depth and no two entries with the same depth and
\* state, whatever the graph below the head of the version is.
C32_SummaryWithoutDuplicates ==
    st_call.op = "record_summary" =>
        /\ \A k \in 1..Len(recorded_summary) : recorded_summary[k].depth <= st_call.max_depth
        /\ \A k \in 1..Len(recorded_summary) : \A other \in 1..Len(recorded_summary) :
              (/\ recorded_summary[k].depth = recorded_summary[other].depth
               /\ recorded_summary[k].state = recorded_summary[other].state) => k = other

(***************************************************************************)
(* The lexer's column (lexer.rs).  SpecColumn lexes texts of several       *)
(* lines: the current position has its point (current_extent) next to its  *)
(* bytes, and an included range has its start and end points.  The bytes   *)
(* move as ts_lexer_goto and ts_lexer__do_advance above move them; the     *)
(* operators here are the same functions with the point of the position    *)
(* and the column data.  A text is the set of the bytes that hold a        *)
(* newline character; every other byte holds a one-byte character.         *)
(***************************************************************************)
\* The lex functions of a text make MaxColumnCalls calls at most.
MaxColumnCalls == 4

ColumnTexts == SUBSET (0..(MaxText - 1))

\* The byte the line of a position starts at, and the point of a position.
line_start(newlines, bytes) ==
    LET before == {n \in newlines : n < bytes}
    IN  IF before = {} THEN 0
        ELSE (CHOOSE n \in before : \A other \in before : other <= n) + 1

point_at(newlines, bytes) ==
    [row |-> Cardinality({n \in newlines : n < bytes}),
     column |-> bytes - line_start(newlines, bytes)]

length_at(newlines, bytes) == [bytes |-> bytes, extent |-> point_at(newlines, bytes)]

\* The included ranges a user passes for a text: the points are the points
\* of the bytes, and no range is empty.
range_with_points(newlines, start_byte, end_byte) ==
    [start_byte |-> start_byte, end_byte |-> end_byte,
     start_point |-> point_at(newlines, start_byte),
     end_point |-> point_at(newlines, end_byte)]

ColumnRanges(newlines) ==
    {range_with_points(newlines, s, e) : s \in RangeBytes, e \in RangeBytes}

ColumnRangeLists(newlines) ==
    {ranges \in UNION {[1..n -> ColumnRanges(newlines)] : n \in 1..MaxRanges} :
        /\ ranges_in_order(ranges, 1, 0)
        /\ \A i \in 1..Len(ranges) : ranges[i].start_byte < ranges[i].end_byte}

ts_lexer__set_column_data(self_, val) ==
    [self_ EXCEPT !.column_data = [valid |-> TRUE, value |-> val]]

ts_lexer__increment_column_data(self_) ==
    IF self_.column_data.valid
    THEN [self_ EXCEPT !.column_data.value = @ + 1]
    ELSE self_

ts_lexer__invalidate_column_data(self_) ==
    [self_ EXCEPT !.column_data = [valid |-> FALSE, value |-> 0]]

\* ts_lexer_goto with the point: the point of the position given, of the
\* start of the range the position was moved to, or of the end of the last
\* range.
goto_extent(included_ranges, position, i) ==
    IF i = 0 THEN included_ranges[Len(included_ranges)].end_point
    ELSE IF included_ranges[i].start_byte >= position.bytes
    THEN included_ranges[i].start_point
    ELSE position.extent

ts_lexer_goto_length(self_, position) ==
    [ts_lexer_goto(IF position.bytes # self_.current_position
                   THEN ts_lexer__invalidate_column_data(self_)
                   ELSE self_,
                   position.bytes)
        EXCEPT !.current_extent =
            goto_extent(self_.included_ranges, position,
                        goto_find(self_.included_ranges, position.bytes, 1))]

ts_lexer_reset_length(self_, position) ==
    IF position.bytes # self_.current_position
    THEN ts_lexer_goto_length(self_, position)
    ELSE self_

ts_lexer_set_input_length(self_, input) ==
    ts_lexer_goto_length(
        ts_lexer__clear_chunk([self_ EXCEPT !.input = input]),
        [bytes |-> self_.current_position, extent |-> self_.current_extent])

\* The character ts_lexer__get_lookahead decoded is the one at the
\* position.
lookahead_is_newline(self_) ==
    self_.lookahead # 0 /\ self_.current_position \in self_.input.newlines

\* The first part of ts_lexer__do_advance: the point and the column data
\* pass the character.
do_advance_character(self_) ==
    IF self_.lookahead_size = 0 THEN self_
    ELSE IF lookahead_is_newline(self_)
    THEN ts_lexer__set_column_data(
             [self_ EXCEPT !.current_extent = [row |-> @.row + 1, column |-> 0],
                           !.current_position = @ + self_.lookahead_size],
             0)
    ELSE ts_lexer__increment_column_data(
             [self_ EXCEPT !.current_extent.column = @ + self_.lookahead_size,
                           !.current_position = @ + self_.lookahead_size])

\* The loop of ts_lexer__do_advance with the point: a position that moved
\* to the start of a next range has the start point of the range.
do_advance_extent(before, passed, ranged) ==
    IF ranged.current_included_range_index > before.current_included_range_index
       /\ ranged.current_included_range_index < Len(ranged.included_ranges)
    THEN ranged.included_ranges[ranged.current_included_range_index + 1].start_point
    ELSE passed.current_extent

ts_lexer__do_advance_length(self_, skip) ==
    [do_advance_read(do_advance_ranges(do_advance_character(self_)), skip)
        EXCEPT !.current_extent =
            do_advance_extent(self_, do_advance_character(self_),
                              do_advance_ranges(do_advance_character(self_)))]

ts_lexer__advance_length(self_, skip) ==
    IF self_.chunk = "null" THEN self_ ELSE ts_lexer__do_advance_length(self_, skip)

\* The loop of ts_lexer__get_column: advance to the recorded position.
RECURSIVE get_column_advance(_, _)
RECURSIVE get_column_advanced(_, _)
get_column_advance(self_, goal_byte) ==
    IF self_.current_position < goal_byte /\ ~ts_lexer__eof(self_) /\ self_.chunk # "null"
    THEN get_column_advanced(ts_lexer__do_advance_length(self_, FALSE), goal_byte)
    ELSE self_

get_column_advanced(advanced, goal_byte) ==
    IF ts_lexer__eof(advanced) THEN advanced ELSE get_column_advance(advanced, goal_byte)

get_column_from_line_start(self_, goal_byte) ==
    IF ts_lexer__eof(self_) THEN self_
    ELSE get_column_advance(ts_lexer__get_lookahead(self_), goal_byte)

\* The lexer after the call; the call returns its column_data.value.
ts_lexer__get_column(self_) ==
    IF self_.column_data.valid THEN [self_ EXCEPT !.did_get_column = TRUE]
    ELSE get_column_from_line_start(
             ts_lexer__get_chunk(
                 ts_lexer__set_column_data(
                     ts_lexer_goto_length(
                         [self_ EXCEPT !.did_get_column = TRUE],
                         [bytes |-> self_.current_position - self_.current_extent.column,
                          extent |-> [row |-> self_.current_extent.row, column |-> 0]]),
                     0)),
             self_.current_position)

\* ts_lexer_start with the column data: a token that starts at byte 0
\* starts at column 0.
ts_lexer_start_column(self_) ==
    IF ~ts_lexer__eof(self_) /\ ts_lexer_start(self_).current_position = 0
    THEN ts_lexer__set_column_data(
             ts_lexer_start([self_ EXCEPT !.did_get_column = FALSE]), 0)
    ELSE ts_lexer_start([self_ EXCEPT !.did_get_column = FALSE])

\* A new lexer whose included ranges were set.
ts_lexer_init_column(ranges) ==
    ts_lexer_goto_length(
        [current_position |-> 0, current_extent |-> [row |-> 0, column |-> 0],
         token_start_position |-> 0, token_end_position |-> 0,
         included_ranges |-> ranges, current_included_range_index |-> 0,
         chunk |-> "null", chunk_start |-> 0, chunk_size |-> 0,
         lookahead_size |-> 0, lookahead |-> 0,
         did_get_column |-> FALSE, column_data |-> [valid |-> FALSE, value |-> 0],
         input |-> [len |-> 0, chunk |-> 1, newlines |-> {}]],
        [bytes |-> 0, extent |-> [row |-> 0, column |-> 0]])

NotReturned == 0 - 1

current_length(self_) == [bytes |-> self_.current_position, extent |-> self_.current_extent]

\* ts_parser_parse of a text with a parser whose included ranges were set
\* for the text: the input is set.
InitColumn ==
    /\ InitHeapVars
    /\ sm_children = << >>
    /\ sm_node = NULL_SUBTREE
    /\ CrIdle
    /\ ParseIdle
    /\ LangIdle
    /\ RangeIdle
    /\ ChangeIdle
    /\ StackIdle
    /\ \E newlines \in ColumnTexts, chunk \in {1, MaxText} :
         \E ranges \in ColumnRangeLists(newlines) :
            lx_lexer = ts_lexer_set_input_length(
                           ts_lexer_init_column(ranges),
                           [len |-> MaxText, chunk |-> chunk, newlines |-> newlines])
    /\ lx_env = [pc |-> "idle", calls |-> 0, positions |-> {[bytes |-> 0, extent |-> [row |-> 0, column |-> 0]]},
                 returned |-> NotReturned]

\* ts_parser__lex: the lexer is reset to the position of a stack version,
\* a position at which the lexer was before, and the lex function is
\* entered.
ColLex ==
    /\ lx_env.calls < MaxColumnCalls
    /\ \E position \in lx_env.positions :
         lx_lexer' = ts_lexer_start_column(ts_lexer_reset_length(lx_lexer, position))
    /\ lx_env' = [lx_env EXCEPT !.pc = "fn", !.calls = @ + 1, !.returned = NotReturned]
    /\ UNCHANGED <<sumVars, heapVars, crVars, parseVars, langVars, rangeVars, changeVars, stackVars>>

\* The lex function calls lexer->advance(lexer, skip).
ColAdvance ==
    /\ lx_env.pc = "fn"
    /\ lx_env.calls < MaxColumnCalls
    /\ \E skip \in BOOLEAN :
         /\ lx_lexer' = ts_lexer__advance_length(lx_lexer, skip)
         /\ lx_env' = [lx_env EXCEPT
                !.calls = @ + 1,
                !.returned = NotReturned,
                !.positions = @ \cup {current_length(ts_lexer__advance_length(lx_lexer, skip))}]
    /\ UNCHANGED <<sumVars, heapVars, crVars, parseVars, langVars, rangeVars, changeVars, stackVars>>

\* The lex function calls lexer->get_column(lexer).
ColGetColumn ==
    /\ lx_env.pc = "fn"
    /\ lx_env.calls < MaxColumnCalls
    /\ lx_lexer' = ts_lexer__get_column(lx_lexer)
    /\ lx_env' = [lx_env EXCEPT
           !.calls = @ + 1,
           !.returned = ts_lexer__get_column(lx_lexer).column_data.value]
    /\ UNCHANGED <<sumVars, heapVars, crVars, parseVars, langVars, rangeVars, changeVars, stackVars>>

NextColumn == ColLex \/ ColAdvance \/ ColGetColumn

SpecColumn == InitColumn /\ [][NextColumn]_vars

\* The column of the current position, counted from the start of its line:
\* the characters of the text, and the characters of the included ranges
\* only.
column_in_text(self_) ==
    self_.current_position - line_start(self_.input.newlines, self_.current_position)

column_in_ranges(self_) ==
    Cardinality({b \in line_start(self_.input.newlines, self_.current_position)
                        ..(self_.current_position - 1) :
                    \E i \in 1..Len(self_.included_ranges) :
                       /\ self_.included_ranges[i].start_byte <= b
                       /\ b < self_.included_ranges[i].end_byte})

is_column(self_, value) ==
    value = column_in_text(self_) \/ value = column_in_ranges(self_)

\* C34 (the claim as stated): the column data that is marked valid, and
\* the value get_column returns, is the column of the lexer's current
\* position counted from the start of the current line (by either way of
\* counting), also after the lexer was moved to another position and after
\* an advance moved it to the start of the next included range.
C34_ColumnDataIsTheColumn ==
    lx_env # << >> =>
        /\ lx_lexer.column_data.valid => is_column(lx_lexer, lx_lexer.column_data.value)
        /\ lx_env.returned # NotReturned => is_column(lx_lexer, lx_env.returned)

(***************************************************************************)
(* The repeat depth of long repetitions (subtree.rs, parser.rs).           *)
(* SpecRepeatDepth builds the node of a repetition from two children,      *)
(* nests it as the first child of the node of the next repetition, and     *)
(* lets ts_parser__balance_subtree look at that node.  A child is a leaf,  *)
(* a repeat node, or the top of a chain of nested repeat nodes that a long *)
(* repetition left: the chain is given by its repeat depth only.           *)
(***************************************************************************)
RepeatDepths == {1, 2, U16_MAX - 1, U16_MAX}

repeat_of(first, last) == ts_subtree_new_node(aux_sym_rep, <<first, last>>, 0)

deep_repeat(depth) ==
    [repeat_of(repeat_of(leaf_x, leaf_x), leaf_x) EXCEPT !.repeat_depth = depth]

RepeatChildren == {leaf_x, repeat_of(leaf_x, leaf_x)} \cup {deep_repeat(d) : d \in RepeatDepths}

\* The number of compressions ts_parser__balance_subtree starts with for a
\* tree (0 when it leaves the tree as it is).
balance_compressions(tree) ==
    IF ts_subtree_repeat_depth(tree) > 0 /\ balance_repeat_delta(tree) > 0
    THEN balance_repeat_delta(tree) \div 2
    ELSE 0

InitRepeatDepth ==
    /\ sm_children = << >>
    /\ sm_node = NULL_SUBTREE
    /\ InitHeapVars /\ CrIdle /\ LexIdle /\ LangIdle
    /\ RangeIdle /\ ChangeIdle /\ StackIdle
    /\ ps_parser = << >>
    /\ ps_call = [pc |-> "summarize", node |-> NULL_SUBTREE, outer |-> NULL_SUBTREE,
                  compressions |-> 0]
    /\ \E first \in RepeatChildren, last \in RepeatChildren :
          ps_env = [first |-> first, last |-> last, next |-> NULL_SUBTREE]

\* The reduction of a repetition: ts_subtree_new_node summarizes the
\* children.
RpSummarize ==
    /\ ps_call.pc = "summarize"
    /\ ps_call' = [ps_call EXCEPT !.pc = "nest",
                                  !.node = repeat_of(ps_env.first, ps_env.last)]
    /\ UNCHANGED <<sumVars, heapVars, crVars, lexVars, langVars, rangeVars,
                   changeVars, stackVars, ps_parser, ps_env>>

\* The reduction of the next repetition: the node is the first child.
RpNest ==
    /\ ps_call.pc = "nest"
    /\ \E next \in RepeatChildren :
          /\ ps_env' = [ps_env EXCEPT !.next = next]
          /\ ps_call' = [ps_call EXCEPT !.pc = "balance",
                                        !.outer = repeat_of(ps_call.node, next)]
    /\ UNCHANGED <<sumVars, heapVars, crVars, lexVars, langVars, rangeVars,
                   changeVars, stackVars, ps_parser>>

\* ts_parser__balance_subtree takes the outer node from the tree_stack.
RpBalance ==
    /\ ps_call.pc = "balance"
    /\ ps_call' = [ps_call EXCEPT !.pc = "balanced",
                                  !.compressions = balance_compressions(ps_call.outer)]
    /\ UNCHANGED <<sumVars, heapVars, crVars, lexVars, langVars, rangeVars,
                   changeVars, stackVars, ps_parser, ps_env>>

NextRepeatDepth == RpSummarize \/ RpNest \/ RpBalance

SpecRepeatDepth == InitRepeatDepth /\ [][NextRepeatDepth]_vars

\* The repeat depth that saturates at the end of the range of a u16.
saturating_depth(first_depth, last_depth) ==
    IF Max(first_depth, last_depth) + 1 > U16_MAX THEN U16_MAX
    ELSE Max(first_depth, last_depth) + 1

\* The node is a repeat node when its first child carries its symbol.
node_depth ==
    IF ts_subtree_symbol(ps_env.first) = aux_sym_rep
    THEN saturating_depth(ps_env.first.repeat_depth, ps_env.last.repeat_depth)
    ELSE 0

\* C35 (the claim as stated): the repeat depth stored in a repeat node is
\* the greater of the repeat depths of its first and last child plus one,
\* saturating at the greatest u16 and never wrapping around, and balancing
\* computes its skew from the saturated depths.
C35_RepeatDepthSaturates ==
    (ps_call # << >> /\ "node" \in DOMAIN ps_call) =>
        /\ ps_call.pc # "summarize" =>
              ts_subtree_repeat_depth(ps_call.node) = node_depth
        /\ ps_call.pc \in {"balance", "balanced"} =>
              ts_subtree_repeat_depth(ps_call.outer)
                 = saturating_depth(node_depth, ps_env.next.repeat_depth)
        /\ ps_call.pc = "balanced" =>
              ps_call.compressions
                 = IF node_depth > ps_env.next.repeat_depth
                   THEN (node_depth - ps_env.next.repeat_depth) \div 2 ELSE 0

(***************************************************************************)
(* The reference counts of the stack's nodes (stack.rs).                   *)
(***************************************************************************)
\* A node is live while its ref_count is above zero.
node_is_live(S, node) == S.ref_count[node] > 0

\* The references to a node: the heads that stand on it, the links of live
\* nodes that lead to it, and for the base node the stack's own base_node.
node_references(S, node) ==
    Cardinality({v \in 1..Len(S.heads) : S.heads[v].node = node})
    + Cardinality({link \in {<<from, j>> : from \in 1..Len(S.nodes), j \in 1..MAX_LINK_COUNT} :
                      /\ node_is_live(S, link[1])
                      /\ link[2] <= Len(S.nodes[link[1]].links)
                      /\ S.nodes[link[1]].links[link[2]].node = node})
    + (IF node = 1 THEN 1 ELSE 0)

ref_counts_balanced(S) ==
    /\ Len(S.ref_count) = Len(S.nodes)
    /\ \A node \in 1..Len(S.nodes) :
          /\ node_is_live(S, node) => S.ref_count[node] = node_references(S, node)
          /\ ~node_is_live(S, node) => node_references(S, node) = 0

\* C36: between the stack's operations the ref_count of every live node is
\* the number of heads on it plus the number of links of live nodes to it
\* (plus one for the base node), and no node that a head or a link of a
\* live node points at was freed or put into the node pool.
C36_NodeRefCountsBalanced ==
    /\ ps_parser # << >> => ref_counts_balanced(ps_parser.stack)
    /\ st_stack # << >> => ref_counts_balanced(st_stack)

\* Nodes were released and freed while a node with several links and a
\* node with several references live on.
C36_Witness ==
    /\ ps_parser # << >>
    /\ \E node \in 1..Len(ps_parser.stack.nodes) : ~node_is_live(ps_parser.stack, node)
    /\ \E node \in 2..Len(ps_parser.stack.nodes) :
          /\ node_is_live(ps_parser.stack, node)
          /\ Len(ps_parser.stack.nodes[node].links) >= 2
    /\ \E node \in 2..Len(ps_parser.stack.nodes) : ps_parser.stack.ref_count[node] >= 2



(***************************************************************************)
(* The subtree references of the heads.  A stack of up to MaxVersions      *)
(* versions takes every call that creates, copies, moves or deletes a      *)
(* version: ts_stack__add_version, ts_stack_copy_version,                  *)
(* ts_stack_renumber_version, ts_stack_swap_versions,                      *)
(* ts_stack_remove_version, ts_stack_pause, ts_stack_resume and            *)
(* ts_stack_clear, and ts_stack_set_last_external_token, which gives the   *)
(* heads their tokens.  ts_stack_copy_version is called on active versions *)
(* as ts_parser__handle_error and ts_parser__recover call it.  st_call     *)
(* keeps the last call.                                                    *)
(***************************************************************************)
HeadTokens == {StackLeaf(sym_x, 0, 1), NULL_SUBTREE}

InitHeadReferences ==
    /\ \E n \in 1..MaxVersions : st_stack = versions_stack(n)
    /\ st_call = [op |-> "none"]
    /\ sm_children = << >>
    /\ sm_node = NULL_SUBTREE
    /\ InitHeapVars
    /\ CrIdle
    /\ ParseIdle
    /\ LexIdle
    /\ LangIdle
    /\ RangeIdle
    /\ ChangeIdle

\* ts_stack__add_version as stack__iter calls it: a version on the node of
\* a version, with the last external token of the original version.
HrAdd ==
    /\ ts_stack_version_count(st_stack) < MaxVersions
    /\ \E original \in VersionIndexes, version \in VersionIndexes :
          /\ st_stack' = ts_stack__add_version(st_stack, original,
                                               st_stack.heads[version + 1].node)
          /\ st_call' = [op |-> "add"]
    /\ UNCHANGED <<sumVars, heapVars, crVars, parseVars, lexVars, langVars, rangeVars, changeVars>>

HrCopy ==
    /\ ts_stack_version_count(st_stack) < MaxVersions
    /\ \E version \in VersionIndexes :
          /\ ts_stack_is_active(st_stack, version)
          /\ st_stack' = ts_stack_copy_version(st_stack, version)
          /\ st_call' = [op |-> "copy"]
    /\ UNCHANGED <<sumVars, heapVars, crVars, parseVars, lexVars, langVars, rangeVars, changeVars>>

HrRenumber ==
    /\ \E v1 \in VersionIndexes, v2 \in VersionIndexes :
          /\ v2 < v1
          /\ st_stack' = ts_stack_renumber_version(st_stack, v1, v2)
          /\ st_call' = [op |-> "renumber"]
    /\ UNCHANGED <<sumVars, heapVars, crVars, parseVars, lexVars, langVars, rangeVars, changeVars>>

HrSwap ==
    /\ \E v1 \in VersionIndexes, v2 \in VersionIndexes :
          /\ v1 # v2
          /\ st_stack' = ts_stack_swap_versions(st_stack, v1, v2)
          /\ st_call' = [op |-> "swap"]
    /\ UNCHANGED <<sumVars, heapVars, crVars, parseVars, lexVars, langVars, rangeVars, changeVars>>

HrRemove ==
    /\ ts_stack_version_count(st_stack) > 1
    /\ \E version \in VersionIndexes :
          /\ st_stack' = ts_stack_remove_version(st_stack, version)
          /\ st_call' = [op |-> "remove"]
    /\ UNCHANGED <<sumVars, heapVars, crVars, parseVars, lexVars, langVars, rangeVars, changeVars>>

HrPause ==
    /\ \E version \in VersionIndexes, lookahead \in Lookaheads :
          /\ ts_stack_is_active(st_stack, version)
          /\ st_stack' = ts_stack_pause(st_stack, version, lookahead)
          /\ st_call' = [op |-> "pause"]
    /\ UNCHANGED <<sumVars, heapVars, crVars, parseVars, lexVars, langVars, rangeVars, changeVars>>

HrResume ==
    /\ \E version \in VersionIndexes :
          /\ ts_stack_is_paused(st_stack, version)
          /\ st_stack' = ts_stack_resume(st_stack, version)
          /\ st_call' = [op |-> "resume"]
    /\ UNCHANGED <<sumVars, heapVars, crVars, parseVars, lexVars, langVars, rangeVars, changeVars>>

HrSetToken ==
    /\ \E version \in VersionIndexes, token \in HeadTokens :
          /\ st_stack' = ts_stack_set_last_external_token(st_stack, version, token)
          /\ st_call' = [op |-> "set_last_external_token"]
    /\ UNCHANGED <<sumVars, heapVars, crVars, parseVars, lexVars, langVars, rangeVars, changeVars>>

HrClear ==
    /\ st_stack' = ts_stack_clear(st_stack)
    /\ st_call' = [op |-> "clear"]
    /\ UNCHANGED <<sumVars, heapVars, crVars, parseVars, lexVars, langVars, rangeVars, changeVars>>

NextHeadReferences ==
    HrAdd \/ HrCopy \/ HrRenumber \/ HrSwap \/ HrRemove \/ HrPause \/ HrResume
        \/ HrSetToken \/ HrClear

SpecHeadReferences == InitHeadReferences /\ [][NextHeadReferences]_vars

\* The subtrees that the heads of S point to, and for one of them the number
\* of head fields that point to it.
head_subtrees(S) ==
    {S.heads[k].last_external_token : k \in 1..Len(S.heads)}
        \cup {S.heads[k].lookahead_when_paused : k \in 1..Len(S.heads)}

head_pointers(S, tree) ==
    Cardinality({k \in 1..Len(S.heads) : S.heads[k].last_external_token = tree})
        + Cardinality({k \in 1..Len(S.heads) : S.heads[k].lookahead_when_paused = tree})

subtree_refs_balanced(S) ==
    /\ DOMAIN S.subtree_refs = {tree \in head_subtrees(S) : ~IsNull(tree)}
    /\ \A tree \in DOMAIN S.subtree_refs : S.subtree_refs[tree] = head_pointers(S, tree)
    /\ ts_stack_clear(S).subtree_refs = no_subtree_refs

\* C37: every call that creates, copies, moves or deletes a version keeps the
\* subtree references balanced: the references that the stack holds on a
\* subtree are one for each head whose last_external_token it is and one for
\* each head whose paused lookahead it is, so deleting all versions releases
\* every subtree exactly as often as it was retained.
C37_HeadReferencesBalanced ==
    /\ st_stack # << >> => subtree_refs_balanced(st_stack)
    /\ ps_parser # << >> => subtree_refs_balanced(ps_parser.stack)

\* After a copy, two heads share a last external token, and a paused head
\* holds a lookahead.
C37_Witness ==
    /\ st_stack # << >>
    /\ st_call.op = "copy"
    /\ \E tree \in DOMAIN st_stack.subtree_refs : st_stack.subtree_refs[tree] >= 3
    /\ \E k \in 1..Len(st_stack.heads) :
          /\ st_stack.heads[k].status = "Paused"
          /\ ~IsNull(st_stack.heads[k].lookahead_when_paused)
          /\ ~IsNull(st_stack.heads[k].last_external_token)


(***************************************************************************)
(* Edits of trees with padding.  A tree of leaves and pair nodes under a   *)
(* root, built by ts_subtree_new_node, takes up to MaxEdits calls of       *)
(* ts_tree_edit, each with an edit whose start is no later than its        *)
(* old_end and its new_end.  The leaves have paddings, sizes (none for a   *)
(* missing leaf) and lookahead bytes of their own.  ch_call keeps the      *)
(* tree, the last edit and the number of calls.                            *)
(***************************************************************************)
MaxEdits == 2
MaxEditInsert == 1

EditLeaves ==
    { ts_subtree_new_leaf(sym_x, 0, 1, 1, 1, FALSE),
      ts_subtree_new_leaf(sym_y, 1, 1, 0, 1, FALSE),
      ts_subtree_new_leaf(sym_x, 2, 2, 2, 1, FALSE),
      ts_subtree_new_missing_leaf(sym_y, 0, 1),
      ts_subtree_new_missing_leaf(sym_y, 1, 0) }

EditPairs == {ts_subtree_new_node(sym_pair, <<first, second>>, 0) :
                 first \in EditLeaves, second \in EditLeaves}

EditRoots ==
    {ts_subtree_new_node(sym_source_file, <<pair, leaf>>, 0) :
        pair \in EditPairs, leaf \in EditLeaves}
    \cup {ts_subtree_new_node(sym_source_file, <<leaf, pair>>, 0) :
             pair \in EditPairs, leaf \in EditLeaves}

InitEdit ==
    /\ \E root \in EditRoots :
          ch_call = [pc |-> "built",
                     tree |-> ts_tree_new(root, <<DEFAULT_RANGE>>),
                     edit |-> [start |-> 0, old_end |-> 0, new_end |-> 0],
                     edits |-> 0]
    /\ sm_children = << >>
    /\ sm_node = NULL_SUBTREE
    /\ InitHeapVars
    /\ CrIdle
    /\ ParseIdle
    /\ LexIdle
    /\ LangIdle
    /\ RangeIdle
    /\ StackIdle

\* The bytes an edit may name: those of the tree and the one behind it.
edit_bytes(tree) == 0..(ts_subtree_total_bytes(tree.root) + 1)

\* ts_tree_edit with an edit whose start is no later than its two ends.
EdEdit ==
    /\ ch_call.edits < MaxEdits
    /\ \E start \in edit_bytes(ch_call.tree), inserted \in 0..MaxEditInsert :
         \E old_end \in {byte \in edit_bytes(ch_call.tree) : byte >= start} :
           ch_call' = [pc |-> "edited",
                       tree |-> ts_tree_edit(ch_call.tree,
                                             [start |-> start, old_end |-> old_end,
                                              new_end |-> start + inserted]),
                       edit |-> [start |-> start, old_end |-> old_end,
                                 new_end |-> start + inserted],
                       edits |-> ch_call.edits + 1]
    /\ UNCHANGED <<sumVars, heapVars, crVars, parseVars, lexVars, langVars, rangeVars, stackVars>>

NextEdit == EdEdit

SpecEdit == InitEdit /\ [][NextEdit]_vars

RECURSIVE children_total_bytes(_, _)
children_total_bytes(children, i) ==
    IF i > Len(children) THEN 0
    ELSE ts_subtree_total_bytes(children[i]) + children_total_bytes(children, i + 1)

RECURSIVE parents_span_children(_)
parents_span_children(tree) ==
    ts_subtree_child_count(tree) > 0 =>
        /\ ts_subtree_padding(tree) + ts_subtree_size(tree)
              = children_total_bytes(tree.children, 1)
        /\ ts_subtree_padding(tree) = ts_subtree_padding(tree.children[1])
        /\ \A i \in 1..Len(tree.children) : parents_span_children(tree.children[i])

\* C38: after ts_subtree_edit with an edit whose start is no later than its
\* old_end and its new_end, the padding and the size of every parent of the
\* edited tree add up to the total bytes of its children, and its padding is
\* that of its first child.
C38_EditKeepsParentsSpanningChildren ==
    ch_call # << >> /\ "edits" \in DOMAIN ch_call =>
        parents_span_children(ch_call.tree.root)

\* An edit that starts in the padding of the root, deletes past the end of
\* its first child and inserts a byte.
C38_Witness ==
    /\ ch_call # << >>
    /\ "edits" \in DOMAIN ch_call
    /\ ch_call.pc = "edited"
    /\ ch_call.edits = 1
    /\ ch_call.edit.start = 1
    /\ ch_call.edit.new_end = 2
    /\ ch_call.edit.old_end >= 6
    /\ ts_subtree_padding(ch_call.tree.root) = 2
    /\ ts_subtree_size(ch_call.tree.root) > 0
    /\ \A i \in 1..2 : ts_subtree_has_changes(ch_call.tree.root.children[i])


(***************************************************************************)
(* What balancing keeps.  Under SpecParse the finished tree is compared    *)
(* across every step that is taken while ts_parser__balance_subtree is at  *)
(* work or was cancelled at work: a turn of its loop, the return of a      *)
(* cancelled call, the entry of the call that resumes it, and the return   *)
(* of the tree.                                                            *)
(***************************************************************************)
RECURSIVE tree_leaves(_)
RECURSIVE leaves_from(_, _)
leaves_from(children, i) ==
    IF i > Len(children) THEN << >>
    ELSE tree_leaves(children[i]) \o leaves_from(children, i + 1)

\* The leaves of a tree from left to right.
tree_leaves(tree) ==
    IF ts_subtree_child_count(tree) = 0 THEN << tree >>
    ELSE leaves_from(tree.children, 1)

same_leaves_and_extent(before, after) ==
    /\ tree_leaves(before) = tree_leaves(after)
    /\ ts_subtree_padding(before) = ts_subtree_padding(after)
    /\ ts_subtree_size(before) = ts_subtree_size(after)

balancing_step ==
    /\ ps_call.pc = "balance" \/ ps_parser.canceled_balancing
    /\ ~IsNull(ps_parser.finished_tree)

balancing_keeps_tree ==
    balancing_step =>
        /\ ~IsNull(ps_parser'.finished_tree) =>
              same_leaves_and_extent(ps_parser.finished_tree, ps_parser'.finished_tree)
        /\ (ps_env'.result = "tree" /\ ps_env.result # "tree") =>
              same_leaves_and_extent(ps_parser.finished_tree, ps_env'.tree)

\* C39: balancing changes only the nesting of repeat nodes: the leaves of the
\* finished tree from left to right and the padding and size of its root are
\* the same before and after every step of balancing, the steps of a call
\* that was cancelled and of the call that resumes it included, and the tree
\* returned has them too.
C39_BalancingKeepsLeavesAndExtent == [][balancing_keeps_tree]_vars

\* A repeat node whose last child is a repeat node: ts_subtree_compress has
\* rotated there.
RECURSIVE has_rotated(_)
has_rotated(tree) ==
    /\ ts_subtree_child_count(tree) > 0
    /\ \/ /\ ts_subtree_symbol(tree) = aux_sym_rep
          /\ ts_subtree_symbol(tree.children[Len(tree.children)]) = aux_sym_rep
       \/ \E i \in 1..Len(tree.children) : has_rotated(tree.children[i])

\* A rotated tree is returned by a call that resumed a cancelled balancing.
C39_Witness ==
    /\ ps_env # << >>
    /\ "entered_after" \in DOMAIN ps_env
    /\ ps_env.result = "tree"
    /\ ps_env.entered_after = "balance"
    /\ has_rotated(ps_env.tree)


\* C40: in every call of ts_stack_renumber_version(v1, v2) that the parser
\* (ts_parser__do_all_potential_reductions, ts_parser__advance,
\* ts_parser__recover), ts_stack_pop_pending and ts_stack_pop_error make, v1
\* is v2 or v2 < v1 < the number of versions: the asserts of
\* ts_stack_renumber_version hold in every call.
C40_RenumberAssertsHold ==
    ps_parser # << >> /\ "stack" \in DOMAIN ps_parser =>
        ps_parser.stack.renumber.asserted

\* A version has been renumbered to an earlier one in this parse.
C40_Witness ==
    /\ ps_parser # << >>
    /\ "stack" \in DOMAIN ps_parser
    /\ ps_parser.stack.renumber.moved
    /\ ps_parser.stack.renumber.asserted

====
